---- MODULE Spec2Model ----
(***************************************************************************)
(* A model of lp-lab: the text parser of lp_optimizer/utils/parser.py, the *)
(* two solver adapters of lp_optimizer/solvers and the solve_problem       *)
(* callback of lp_optimizer/app.py.                                        *)
(*                                                                         *)
(* Text is a TLA+ string, read character by character, as the  *)
(* regular expressions of the source read it.  A number (a Python float)   *)
(* is an integer count of 1/Scale units, Scale = 10^FracDigits: "1.5" is   *)
(* 15 when FracDigits = 1.  Binary rounding of floats is not modelled.     *)
(***************************************************************************)
EXTENDS Integers, Sequences, FiniteSets, TLC

\* ------------------------------------------------------------------ bounds
\* Fractional digits a number keeps.
FracDigits == 1
\* Largest digit used as a coefficient or a constant in the input texts.
MaxCoef == 2

RECURSIVE Pow10(_)
Pow10(n) == IF n = 0 THEN 1 ELSE 10 * Pow10(n - 1)
Scale == Pow10(FracDigits)

\* ------------------------------------------------------------- characters
Digits == "0123456789"
UpperCase == "ABCDEFGHIJKLMNOPQRSTUVWXYZ"
LowerCase == "abcdefghijklmnopqrstuvwxyz"
\* The characters of a name ([a-zA-Z]\w*) in code point order, for comparing names as
\* Python compares str.
Ascii == Digits \o UpperCase \o "_" \o LowerCase

\* s[a-1:b] of Python: the characters a..b, those past either end left out.
Sub(s, a, b) ==
    LET lo == IF a < 1 THEN 1 ELSE a
        hi == IF b > Len(s) THEN Len(s) ELSE b
    IN IF lo > hi THEN "" ELSE SubSeq(s, lo, hi)
Ch(s, i) == Sub(s, i, i)
CharSet(s) == {Ch(s, i) : i \in 1..Len(s)}
From(s, i) == Sub(s, i, Len(s))

\* The ASCII whitespace characters TLA+ has no escape for, written as they are:
\* vertical tab (0x0b) and the file, group, record and unit separators (0x1c-0x1f).
VT == ""
FS == ""
GS == ""
RS == ""
US == ""

\* \s, \d, [a-zA-Z] and \w of Python's re, on the ASCII characters; str.strip() and
\* float() take the same characters as whitespace.
IsSpace(c) == c \in {" ", "\t", "\n", "\r", "\f", VT, FS, GS, RS, US}
DigitSet == CharSet(Digits)
AlphaSet == CharSet(UpperCase) \cup CharSet(LowerCase)
IsDigit(c) == c \in DigitSet
IsAlpha(c) == c \in AlphaSet
IsWord(c) == IsAlpha(c) \/ IsDigit(c) \/ c = "_"
IsSign(c) == c \in {"+", "-"}

DigitVal(c) == CHOOSE k \in 0..9 : Ch(Digits, k + 1) = c
Ord(c) == CHOOSE k \in 1..Len(Ascii) : Ch(Ascii, k) = c

\* The first position >= i of s holding no character of the class, Len(s) + 1 if none:
\* where a greedy X* that starts at i stops.
RECURSIVE SkipSpace(_, _)
SkipSpace(s, i) == IF i <= Len(s) /\ IsSpace(Ch(s, i)) THEN SkipSpace(s, i + 1) ELSE i
RECURSIVE SkipDigit(_, _)
SkipDigit(s, i) == IF i <= Len(s) /\ IsDigit(Ch(s, i)) THEN SkipDigit(s, i + 1) ELSE i
RECURSIVE SkipWord(_, _)
SkipWord(s, i) == IF i <= Len(s) /\ IsWord(Ch(s, i)) THEN SkipWord(s, i + 1) ELSE i
SkipOne(s, i, c) == IF i <= Len(s) /\ Ch(s, i) = c THEN i + 1 ELSE i
SkipSign(s, i) == IF i <= Len(s) /\ IsSign(Ch(s, i)) THEN i + 1 ELSE i

\* ------------------------------------------------------------ str methods
\* str.strip()
RECURSIVE RStrip(_)
RStrip(s) == IF Len(s) > 0 /\ IsSpace(Ch(s, Len(s))) THEN RStrip(Sub(s, 1, Len(s) - 1)) ELSE s
strip(s) == RStrip(From(s, SkipSpace(s, 1)))

\* str.replace(" ", "")
RECURSIVE RemoveBlanks(_)
RemoveBlanks(s) ==
    IF s = "" THEN ""
    ELSE (IF Ch(s, 1) = " " THEN "" ELSE Ch(s, 1)) \o RemoveBlanks(From(s, 2))

\* str.find(t): the first position of t in s, 0 if t does not occur.
Find(s, t) ==
    LET hits == {i \in 1..(Len(s) - Len(t) + 1) : Sub(s, i, i + Len(t) - 1) = t}
    IN IF hits = {} THEN 0 ELSE CHOOSE i \in hits : \A j \in hits : i <= j

Contains(s, t) == t = "" \/ Find(s, t) > 0

\* str.replace(t, "", 1): s without the first occurrence of t.
RemoveFirst(s, t) ==
    LET i == Find(s, t)
    IN IF t = "" \/ i = 0 THEN s ELSE Sub(s, 1, i - 1) \o From(s, i + Len(t))

\* name in list
InList(v, list) == \E i \in 1..Len(list) : list[i] = v
Range(list) == {list[i] : i \in 1..Len(list)}

\* ------------------------------------------------------------------ float
RECURSIVE IntVal(_)
IntVal(s) == IF s = "" THEN 0 ELSE 10 * IntVal(Sub(s, 1, Len(s) - 1)) + DigitVal(Ch(s, Len(s)))

\* The fraction digits f as a count of 1/Scale units (digits past FracDigits are cut).
FracVal(f) ==
    LET g == Sub(f, 1, IF Len(f) < FracDigits THEN Len(f) ELSE FracDigits)
    IN IntVal(g) * Pow10(FracDigits - Len(g))

\* repr(s) without its quotes, for the characters a coefficient text can hold.
RECURSIVE Repr(_)
Repr(s) ==
    IF s = "" THEN ""
    ELSE LET c == Ch(s, 1)
         IN (CASE c = "\t" -> "\\t" [] c = "\n" -> "\\n" [] c = "\r" -> "\\r"
               [] c = "\f" -> "\\x0c" [] c = VT -> "\\x0b"
               [] c = FS -> "\\x1c" [] c = GS -> "\\x1d"
               [] c = RS -> "\\x1e" [] c = US -> "\\x1f"
               [] OTHER -> c) \o Repr(From(s, 2))

\* str(e) of the ValueError float(s) raises.
FloatError(s) == "could not convert string to float: '" \o Repr(s) \o "'"

\* s without its underscores.
RECURSIVE RemoveUnderscores(_)
RemoveUnderscores(s) ==
    IF s = "" THEN ""
    ELSE (IF Ch(s, 1) = "_" THEN "" ELSE Ch(s, 1)) \o RemoveUnderscores(From(s, 2))

\* The whitespace float() passes over at either end of an ASCII text: that of C's
\* isspace, which has the vertical tab but none of the separators 0x1c-0x1f.
IsFloatSpace(c) == c \in {" ", "\t", "\n", "\r", "\f", VT}
RECURSIVE FloatStrip(_)
FloatStrip(s) ==
    IF Len(s) > 0 /\ IsFloatSpace(Ch(s, 1)) THEN FloatStrip(From(s, 2))
    ELSE IF Len(s) > 0 /\ IsFloatSpace(Ch(s, Len(s))) THEN FloatStrip(Sub(s, 1, Len(s) - 1))
    ELSE s

\* float(s) for the decimal literals [+-]?(\d+\.?\d*|\.\d+), surrounding whitespace
\* ignored and a single underscore allowed between two digits; anything else raises
\* ValueError (the texts the parser passes hold no letter: no exponent, inf or nan).
float(s) ==
    LET u == FloatStrip(s)
        grouped == \A i \in 1..Len(u) :
                      Ch(u, i) = "_" => IsDigit(Ch(u, i - 1)) /\ IsDigit(Ch(u, i + 1))
        t == RemoveUnderscores(u)
        a == SkipSign(t, 1)
        b == SkipDigit(t, a)
        c == SkipOne(t, b, ".")
        d == SkipDigit(t, c)
        valid == grouped /\ d = Len(t) + 1 /\ (b > a \/ d > c)
        mag == IntVal(Sub(t, a, b - 1)) * Scale + FracVal(Sub(t, c, d - 1))
    IN IF valid
       THEN [ok |-> TRUE, value |-> IF a > 1 /\ Ch(t, 1) = "-" THEN 0 - mag ELSE mag, error |-> ""]
       ELSE [ok |-> FALSE, value |-> 0, error |-> FloatError(s)]

\* ------------------------------------------------------- the term scanner
\* One attempt of ([+-]?\s*\d*\.?\d*)\s*\*?\s*([a-zA-Z]\w*) at position p of s.  Every
\* piece is greedy and the classes are disjoint, so backtracking changes nothing.
MatchTerm(s, p) ==
    LET i5 == SkipDigit(s, SkipOne(s, SkipDigit(s, SkipSpace(s, SkipSign(s, p))), "."))
        i8 == SkipSpace(s, SkipOne(s, SkipSpace(s, i5), "*"))
        ok == i8 <= Len(s) /\ IsAlpha(Ch(s, i8))
        i9 == IF ok THEN SkipWord(s, i8 + 1) ELSE i8
    IN [ok |-> ok,
        coef |-> Sub(s, p, i5 - 1),
        var |-> Sub(s, i8, i9 - 1),
        text |-> Sub(s, p, i9 - 1),
        end |-> i9]

\* re.findall of the term pattern from position p on: the matches, left to right,
\* none overlapping.
RECURSIVE FindTermsFrom(_, _)
FindTermsFrom(s, p) ==
    LET Rest(m) == IF m.ok THEN <<m>> \o FindTermsFrom(s, m.end) ELSE FindTermsFrom(s, p + 1)
    IN IF p > Len(s) THEN <<>> ELSE Rest(MatchTerm(s, p))

FindTerms(s) == FindTermsFrom(s, 1)

\* The coefficient text of a term as lines 29-33 and 88-92 normalise it.
CoefText(coef) ==
    LET c == RemoveBlanks(coef)
    IN IF c \in {"", "+"} THEN "1" ELSE IF c = "-" THEN "-1" ELSE c

\* The loop `for term in findall(...): remaining = remaining.replace(term, "", 1)`.
RECURSIVE RemoveTerms(_, _, _)
RemoveTerms(s, terms, k) ==
    IF k > Len(terms) THEN s ELSE RemoveTerms(RemoveFirst(s, terms[k].text), terms, k + 1)

\* SearchConst taking the rightmost match instead of the leftmost.
RECURSIVE SearchConstLast(_, _)
SearchConstLast(s, p) ==
    IF p > Len(s) THEN ""
    ELSE LET a == SkipSpace(s, SkipSign(s, p))
             b == SkipDigit(s, a)
             d == SkipDigit(s, SkipOne(s, b, "."))
             Later(found, rest) == IF rest = "" THEN found ELSE rest
         IN IF b > a THEN Later(Sub(s, p, d - 1), SearchConstLast(s, d))
            ELSE SearchConstLast(s, p + 1)

\* re.search(r"[+-]?\s*\d+\.?\d*", s): the leftmost match, "" when there is none.
RECURSIVE SearchConst(_, _)
SearchConst(s, p) ==
    IF p > Len(s) THEN ""
    ELSE LET a == SkipSpace(s, SkipSign(s, p))
             b == SkipDigit(s, a)
             d == SkipDigit(s, SkipOne(s, b, "."))
         IN IF b > a THEN Sub(s, p, d - 1) ELSE SearchConst(s, p + 1)

\* -------------------------------------------------------- parse_objective
Lower(c) ==
    IF c \in CharSet(UpperCase)
    THEN Ch(LowerCase, CHOOSE k \in 1..Len(UpperCase) : Ch(UpperCase, k) = c)
    ELSE c

\* re.sub(r"^(Max|Min)\s+Z\s*=\s*", "", s, flags=re.IGNORECASE)
StripPrefix(s) ==
    LET word == Lower(Ch(s, 1)) \o Lower(Ch(s, 2)) \o Lower(Ch(s, 3))
        a == SkipSpace(s, 4)
        b == SkipSpace(s, a + 1)
        c == SkipSpace(s, b + 1)
    IN IF /\ Len(s) >= 3
          /\ word \in {"max", "min"}
          /\ a > 4
          /\ a <= Len(s) /\ Lower(Ch(s, a)) = "z"
          /\ b <= Len(s) /\ Ch(s, b) = "="
       THEN From(s, c)
       ELSE s

\* The constant left in `remaining` (lines 45-53): float() of the first standalone
\* number, 0 when there is none.  Whitespace other than blanks between the sign and
\* the digits makes that float() raise.
ObjectiveConstant(remaining) ==
    LET Constant(const_match) ==
            IF const_match = "" THEN [ok |-> TRUE, value |-> 0, error |-> ""]
            ELSE float(RemoveBlanks(const_match))
    IN Constant(SearchConst(strip(remaining), 1))

\* ObjectiveTerms with `coefficients[var] += float(coef)`: the terms of a variable are
\* added up.
RECURSIVE ObjectiveTermsAdding(_, _, _)
ObjectiveTermsAdding(terms, k, acc) ==
    LET Term(var, f) ==
            IF ~f.ok
            THEN [acc EXCEPT !.ok = FALSE, !.error = f.error]
            ELSE ObjectiveTermsAdding(terms, k + 1,
                    [acc EXCEPT
                        !.coefficients = [v \in DOMAIN acc.coefficients \cup {var} |->
                                            (IF v \in DOMAIN acc.coefficients
                                             THEN acc.coefficients[v] ELSE 0)
                                            + (IF v = var THEN f.value ELSE 0)],
                        !.variables = IF InList(var, acc.variables)
                                      THEN acc.variables
                                      ELSE Append(acc.variables, var)])
    IN IF k > Len(terms) THEN acc
       ELSE Term(terms[k].var, float(CoefText(terms[k].coef)))

\* ObjectiveTerms without the test `if var not in variables` of line 35: the name is
\* appended at every term.
RECURSIVE ObjectiveTermsRepeating(_, _, _)
ObjectiveTermsRepeating(terms, k, acc) ==
    LET Term(var, f) ==
            IF ~f.ok
            THEN [acc EXCEPT !.ok = FALSE, !.error = f.error]
            ELSE ObjectiveTermsRepeating(terms, k + 1,
                    [acc EXCEPT
                        !.coefficients = [v \in DOMAIN acc.coefficients \cup {var} |->
                                            IF v = var THEN f.value ELSE acc.coefficients[v]],
                        !.variables = Append(acc.variables, var)])
    IN IF k > Len(terms) THEN acc
       ELSE Term(terms[k].var, float(CoefText(terms[k].coef)))

\* The loop of lines 28-36 from term k on; acc holds coefficients, variables and the
\* error of the first float() that raised.
RECURSIVE ObjectiveTerms(_, _, _)
ObjectiveTerms(terms, k, acc) ==
    LET Term(var, f) ==
            IF ~f.ok
            THEN [acc EXCEPT !.ok = FALSE, !.error = f.error]
            ELSE ObjectiveTerms(terms, k + 1,
                    [acc EXCEPT
                        !.coefficients = [v \in DOMAIN acc.coefficients \cup {var} |->
                                            IF v = var THEN f.value ELSE acc.coefficients[v]],
                        !.variables = IF InList(var, acc.variables)
                                      THEN acc.variables
                                      ELSE Append(acc.variables, var)])
    IN IF k > Len(terms) THEN acc
       ELSE Term(terms[k].var, float(CoefText(terms[k].coef)))

\* parse_objective(objective_str): ok is FALSE when the call raises, with str(e) in error.
parse_objective(objective_str) ==
    LET raised(e) == [ok |-> FALSE, coefficients |-> << >>, variables |-> << >>,
                      constant |-> 0, error |-> e]
        Return(acc, const) ==
            IF ~acc.ok THEN raised(acc.error)
            ELSE IF ~const.ok THEN raised(const.error)
            ELSE [acc EXCEPT !.constant = const.value]
        Loop(clean_str, terms) ==
            Return(ObjectiveTerms(terms, 1,
                      [ok |-> TRUE, coefficients |-> << >>, variables |-> << >>,
                       constant |-> 0, error |-> ""]),
                   ObjectiveConstant(RemoveTerms(clean_str, terms, 1)))
        Clean(clean_str) == Loop(clean_str, FindTerms(clean_str))
    IN Clean(StripPrefix(strip(objective_str)))

\* ------------------------------------------------------- parse_constraint
Operators == <<"<=", ">=", "=">>

IsDot(c) == c # "\n"

\* Where group 3, the final (.+), starts when the operator ends before position a, 0
\* if it cannot: \s* is greedy and gives characters back until .+ finds one to take.
Group3Start(s, a) ==
    LET Back == {i \in a..Len(s) : IsDot(Ch(s, i))}
        After(r) == IF r <= Len(s) THEN r
                    ELSE IF Back = {} THEN 0
                    ELSE CHOOSE i \in Back : \A j \in Back : j <= i
    IN After(SkipSpace(s, a))

\* Where group 3 stops: before the first newline, . matching no newline.
Group3Stop(s, start) ==
    LET nl == {i \in start..Len(s) : ~IsDot(Ch(s, i))}
    IN IF nl = {} THEN Len(s) ELSE (CHOOSE i \in nl : \A j \in nl : i <= j) - 1

\* The rest of (.+?)\s*(<=|>=|=)\s*(.+) once the lazy group holds the first k
\* characters: the operator tried in the order written, and group 3.
SplitAt(s, k) ==
    LET NoMatch == [ok |-> FALSE, lhs |-> "", operator |-> "", rhs |-> ""]
        Groups(op, start) ==
            [ok |-> TRUE, lhs |-> Sub(s, 1, k), operator |-> op,
             rhs |-> Sub(s, start, Group3Stop(s, start))]
        Written(q, op) ==
            Sub(s, q, q + Len(op) - 1) = op /\ Group3Start(s, q + Len(op)) > 0
        First(q, op) == Groups(op, Group3Start(s, q + Len(op)))
        Pick(q, good) ==
            IF good = {} \/ \E i \in 1..k : ~IsDot(Ch(s, i)) THEN NoMatch
            ELSE First(q, Operators[CHOOSE n \in good : \A m \in good : n <= m])
        At(q) == Pick(q, {n \in 1..Len(Operators) : Written(q, Operators[n])})
    IN At(SkipSpace(s, k + 1))

\* re.match(r"(.+?)\s*(<=|>=|=)\s*(.+)", s): group 1 grows from one character until
\* the rest matches.
RECURSIVE MatchFrom(_, _)
MatchFrom(s, k) ==
    LET Try(m) == IF m.ok THEN m ELSE MatchFrom(s, k + 1)
    IN IF k > Len(s) THEN [ok |-> FALSE, lhs |-> "", operator |-> "", rhs |-> ""]
       ELSE Try(SplitAt(s, k))

\* MatchConstraint reading a text without an operator as an equation with rhs 0.
MatchConstraintLenient(s) ==
    LET Or(m) == IF m.ok THEN m ELSE [ok |-> TRUE, lhs |-> s, operator |-> "=", rhs |-> "0"]
    IN Or(MatchFrom(s, 1))

MatchConstraint(s) == MatchFrom(s, 1)

\* LhsTerms without the test `if var in variables` of line 93: every term of the left
\* side gets a key.
RECURSIVE LhsTermsUnguarded(_, _, _, _)
LhsTermsUnguarded(terms, k, variables, acc) ==
    LET Term(var, f) ==
            IF ~f.ok THEN [acc EXCEPT !.ok = FALSE, !.error = f.error]
            ELSE LhsTermsUnguarded(terms, k + 1, variables,
                    [acc EXCEPT !.coefficients =
                        [v \in DOMAIN acc.coefficients \cup {var} |->
                            IF v = var THEN f.value ELSE acc.coefficients[v]]])
    IN IF k > Len(terms) THEN acc
       ELSE Term(terms[k].var, float(CoefText(terms[k].coef)))

\* LhsTerms raising on a term whose variable is not listed, instead of passing it over.
RECURSIVE LhsTermsStrict(_, _, _, _)
LhsTermsStrict(terms, k, variables, acc) ==
    LET Term(var, f) ==
            IF ~InList(var, variables)
            THEN [acc EXCEPT !.ok = FALSE, !.error = "Unknown variable: " \o var]
            ELSE IF ~f.ok THEN [acc EXCEPT !.ok = FALSE, !.error = f.error]
            ELSE LhsTermsStrict(terms, k + 1, variables,
                                [acc EXCEPT !.coefficients[var] = f.value])
    IN IF k > Len(terms) THEN acc
       ELSE Term(terms[k].var, float(CoefText(terms[k].coef)))

\* The loop of lines 87-94 from term k on: a term of a listed variable sets its
\* coefficient; float() is reached for listed variables only.
RECURSIVE LhsTerms(_, _, _, _)
LhsTerms(terms, k, variables, acc) ==
    LET Term(var, f) ==
            IF ~InList(var, variables) THEN LhsTerms(terms, k + 1, variables, acc)
            ELSE IF ~f.ok THEN [acc EXCEPT !.ok = FALSE, !.error = f.error]
            ELSE LhsTerms(terms, k + 1, variables,
                          [acc EXCEPT !.coefficients[var] = f.value])
    IN IF k > Len(terms) THEN acc
       ELSE Term(terms[k].var, float(CoefText(terms[k].coef)))

\* The loop of lines 101-109: a term of a listed variable is subtracted.
RECURSIVE RhsTerms(_, _, _, _)
RhsTerms(terms, k, variables, acc) ==
    LET Term(var, f) ==
            IF ~InList(var, variables) THEN RhsTerms(terms, k + 1, variables, acc)
            ELSE IF ~f.ok THEN [acc EXCEPT !.ok = FALSE, !.error = f.error]
            ELSE RhsTerms(terms, k + 1, variables,
                          [acc EXCEPT !.coefficients[var] = @ - f.value])
    IN IF k > Len(terms) \/ ~acc.ok THEN acc
       ELSE Term(terms[k].var, float(CoefText(terms[k].coef)))

\* The constant of the right side (lines 113-133): float() of what is left once the
\* terms are removed, else float() of the first standalone number in it, else 0.
RhsConstant(rhs) ==
    LET Constant(rhs_remaining, whole, const_match) ==
            IF rhs_remaining = "" \/ (~whole.ok /\ const_match = "")
            THEN [ok |-> TRUE, value |-> 0, error |-> ""]
            ELSE IF whole.ok THEN whole
            ELSE float(RemoveBlanks(const_match))
        Left(rhs_remaining) ==
            Constant(rhs_remaining, float(rhs_remaining), SearchConst(rhs_remaining, 1))
    IN Left(strip(RemoveTerms(strip(rhs), FindTerms(rhs), 1)))

\* parse_constraint moving the constant of the left side to the right, as the
\* docstring (lines 64-65) words it: rhs is the right constant less the left one.
parse_constraint_moving(constraint_str, variables) ==
    LET failed(e) == [ok |-> FALSE, coefficients |-> << >>, operator |-> "", rhs |-> 0,
                      error |-> e]
        zero(operator) == [ok |-> TRUE, coefficients |-> [v \in Range(variables) |-> 0],
                           operator |-> operator, rhs |-> 0, error |-> ""]
        Return(both, const, left) ==
            IF ~both.ok THEN failed(both.error)
            ELSE IF ~const.ok THEN failed(const.error)
            ELSE IF ~left.ok THEN failed(left.error)
            ELSE [both EXCEPT !.rhs = const.value - left.value]
        Sides(match) ==
            IF ~match.ok THEN failed("Invalid constraint format: " \o constraint_str)
            ELSE Return(RhsTerms(FindTerms(match.rhs), 1, variables,
                                 LhsTerms(FindTerms(match.lhs), 1, variables,
                                          zero(match.operator))),
                        RhsConstant(match.rhs), RhsConstant(match.lhs))
    IN Sides(MatchConstraint(constraint_str))

\* parse_constraint(constraint_str, variables): ok is FALSE when the call raises.
parse_constraint(constraint_str, variables) ==
    LET failed(e) == [ok |-> FALSE, coefficients |-> << >>, operator |-> "", rhs |-> 0,
                      error |-> e]
        zero(operator) == [ok |-> TRUE, coefficients |-> [v \in Range(variables) |-> 0],
                           operator |-> operator, rhs |-> 0, error |-> ""]
        Return(both, const) ==
            IF ~both.ok THEN failed(both.error)
            ELSE IF ~const.ok THEN failed(const.error)
            ELSE [both EXCEPT !.rhs = const.value]
        Sides(match) ==
            IF ~match.ok THEN failed("Invalid constraint format: " \o constraint_str)
            ELSE Return(RhsTerms(FindTerms(match.rhs), 1, variables,
                                 LhsTerms(FindTerms(match.lhs), 1, variables,
                                          zero(match.operator))),
                        RhsConstant(match.rhs))
    IN Sides(MatchConstraint(constraint_str))

\* ------------------------------------------------------- the solve helpers
\* a < b as Python orders two str: by code point, a proper prefix first.
RECURSIVE StrLess(_, _)
StrLess(a, b) ==
    IF b = "" THEN FALSE
    ELSE IF a = "" THEN TRUE
    ELSE IF Ch(a, 1) = Ch(b, 1) THEN StrLess(From(a, 2), From(b, 2))
    ELSE Ord(Ch(a, 1)) < Ord(Ch(b, 1))

\* list with v put before the first element greater than it.
RECURSIVE Insert(_, _)
Insert(list, v) ==
    IF list = << >> THEN <<v>>
    ELSE IF StrLess(v, Head(list)) THEN <<v>> \o list
    ELSE <<Head(list)>> \o Insert(Tail(list), v)

\* sorted(names)
RECURSIVE sorted(_)
sorted(names) == IF names = << >> THEN << >> ELSE Insert(sorted(Tail(names)), Head(names))

\* text.split("\n")
RECURSIVE split(_)
split(text) ==
    LET i == Find(text, "\n")
    IN IF i = 0 THEN <<text>> ELSE <<Sub(text, 1, i - 1)>> \o split(From(text, i + 1))

\* StripNonBlank without the filter: [c.strip() for c in parts]
RECURSIVE StripKeepingBlank(_)
StripKeepingBlank(parts) ==
    IF parts = << >> THEN << >>
    ELSE <<strip(Head(parts))>> \o StripKeepingBlank(Tail(parts))

\* [c.strip() for c in parts if c.strip()]
RECURSIVE StripNonBlank(_)
StripNonBlank(parts) ==
    IF parts = << >> THEN << >>
    ELSE (IF strip(Head(parts)) = "" THEN << >> ELSE <<strip(Head(parts))>>)
         \o StripNonBlank(Tail(parts))

\* constraint_lines (highs_solver.py 63-65, pulp_solver.py 54-56)
ConstraintLines(constraints_text) == StripNonBlank(split(strip(constraints_text)))

\* dict.get(key, 0)
Get(dict, key) == IF key \in DOMAIN dict THEN dict[key] ELSE 0

\* [dict.get(var, 0) for var in names]
Row(dict, names) == [i \in 1..Len(names) |-> Get(dict, names[i])]
Neg(row) == [i \in 1..Len(row) |-> 0 - row[i]]

ConstraintError(constraint_text, e) ==
    "Error parsing constraint '" \o constraint_text \o "': " \o e

\* ParseLines with the `return` of the except clause left out: a line that raises is
\* passed over and the loop goes on.
RECURSIVE ParseLinesSkipping(_, _, _, _)
ParseLinesSkipping(lines, k, variables, done) ==
    LET Line(c) ==
            IF ~c.ok THEN ParseLinesSkipping(lines, k + 1, variables, done)
            ELSE ParseLinesSkipping(lines, k + 1, variables,
                                    Append(done, [coeffs |-> c.coefficients,
                                                  op |-> c.operator, rhs |-> c.rhs]))
    IN IF k > Len(lines) THEN [ok |-> TRUE, parsed_constraints |-> done, error |-> ""]
       ELSE Line(parse_constraint(lines[k], variables))

\* The loop over constraint_lines from line k on: every line is parsed against
\* `variables`; the first one that raises ends the loop with its error message.
RECURSIVE ParseLines(_, _, _, _)
ParseLines(lines, k, variables, done) ==
    LET Line(c) ==
            IF ~c.ok
            THEN [ok |-> FALSE, parsed_constraints |-> done,
                  error |-> ConstraintError(lines[k], c.error)]
            ELSE ParseLines(lines, k + 1, variables,
                            Append(done, [coeffs |-> c.coefficients, op |-> c.operator,
                                          rhs |-> c.rhs]))
    IN IF k > Len(lines) THEN [ok |-> TRUE, parsed_constraints |-> done, error |-> ""]
       ELSE Line(parse_constraint(lines[k], variables))

\* ------------------------------------------------------------ the backends
\* The numerical routines are not part of the repository.  Each is an oracle that
\* solves the program it is handed over the points of a grid: every coordinate a
\* multiple of one half, from -GridMax to GridMax, within the variable's bounds.  The
\* input texts are chosen so that every vertex of their feasible regions is such a point.
\* A bound is << >> for None and <<b>> for the number b; the bounds of a variable are
\* the pair <<lower, upper>>.
Half == Scale \div 2
GridMax == 2 * MaxCoef
Within(k, bound) ==
    /\ bound[1] = << >> \/ k * Half >= bound[1][1] * Scale
    /\ bound[2] = << >> \/ k * Half <= bound[2][1] * Scale
Points(bounds) ==
    LET Coordinates(i) == {k \in (0 - 2 * GridMax)..(2 * GridMax) : Within(k, bounds[i])}
    IN {pt \in [DOMAIN bounds -> UNION {Coordinates(i) : i \in DOMAIN bounds}] :
            \A i \in DOMAIN bounds : pt[i] \in Coordinates(i)}
\* The directions a point can move in for ever without leaving its bounds.
Directions(bounds) ==
    LET Ray(i) == {k \in (0 - 2 * GridMax)..(2 * GridMax) :
                      /\ bounds[i][1] # << >> => k >= 0
                      /\ bounds[i][2] # << >> => k <= 0}
    IN {d \in [DOMAIN bounds -> UNION {Ray(i) : i \in DOMAIN bounds}] :
            \A i \in DOMAIN bounds : d[i] \in Ray(i)}

RECURSIVE Dot(_, _, _)
\* sum of a[i] * pt[i] / 2 from i = k on, in units of 1/Scale^2
Dot(a, pt, k) == IF k > Len(a) THEN 0 ELSE a[k] * pt[k] * Half + Dot(a, pt, k + 1)

\* The points of S that do not lie halfway between two others: the corners of S.  The
\* backends answer with a basic solution, a corner of the set of optimal points.
Corners(S) ==
    {pt \in S : ~\E q1, q2 \in S :
                    q1 # q2 /\ \A i \in DOMAIN pt : 2 * pt[i] = q1[i] + q2[i]}

\* The iteration counts a result of linprog can report in nit.
Iterations == {0, 3}

\* scipy.optimize.linprog(c, A_ub, b_ub, A_eq, b_eq, bounds): minimise c.x subject to
\* A_ub x <= b_ub, A_eq x = b_eq, every variable within the one pair of bounds.  The
\* results it can return when it classifies the program correctly: status 2 infeasible,
\* 3 unbounded, 0 with any optimal corner.  With a solution slack is b_ub - A_ub x, an
\* empty array when there are no inequality rows; without one x and slack are None.
linprog(c, A_ub, b_ub, A_eq, b_eq, bounds) ==
    LET n == Len(c)
        each == [i \in 1..n |-> bounds]
        Inside(pt) == /\ \A r \in 1..Len(A_ub) : Dot(A_ub[r], pt, 1) <= b_ub[r] * Scale
                      /\ \A r \in 1..Len(A_eq) : Dot(A_eq[r], pt, 1) = b_eq[r] * Scale
        Recedes(pt) == /\ \A r \in 1..Len(A_ub) : Dot(A_ub[r], pt, 1) <= 0
                       /\ \A r \in 1..Len(A_eq) : Dot(A_eq[r], pt, 1) = 0
                       /\ Dot(c, pt, 1) < 0
        feasible == {pt \in Points(each) : Inside(pt)}
        best == Corners({pt \in feasible : \A q \in feasible : Dot(c, pt, 1) <= Dot(c, q, 1)})
        Failed(status, message) ==
            {[kind |-> "returned", success |-> FALSE, status |-> status,
              x |-> << >>, fun |-> 0, message |-> message, nit |-> nit,
              slack |-> << >>] : nit \in Iterations}
    IN IF feasible = {} THEN Failed(2, "The problem is infeasible.")
       ELSE IF \E pt \in Directions(each) : Recedes(pt)
       THEN Failed(3, "The problem is unbounded.")
       ELSE {[kind |-> "returned", success |-> TRUE, status |-> 0,
              x |-> [i \in 1..n |-> pt[i] * Half],
              fun |-> Dot(c, pt, 1) \div Scale,
              message |-> "Optimization terminated successfully.",
              nit |-> nit,
              slack |-> <<[r \in 1..Len(A_ub) |->
                            b_ub[r] - (Dot(A_ub[r], pt, 1) \div Scale)]>>] :
                pt \in best, nit \in Iterations}

\* Results linprog can return when it gives up: the iteration limit (1), numerical
\* difficulties (4).
linprogGaveUp ==
    {[kind |-> "returned", success |-> FALSE, status |-> st[1], x |-> << >>, fun |-> 0,
      message |-> st[2], nit |-> nit, slack |-> << >>] :
        st \in {<<1, "Iteration limit reached.">>,
                <<4, "Numerical difficulties encountered.">>},
        nit \in Iterations}

BackendRaised == [kind |-> "raised", error |-> "backend error"]

\* pulp's LpStatus codes
LpStatusNotSolved == 0
LpStatusOptimal == 1
LpStatusInfeasible == -1
LpStatusUnbounded == -2
LpStatusUndefined == -3

\* prob.solve(PULP_CBC_CMD(...)): optimise the objective in the problem's sense subject
\* to its constraints as written, every variable within its bounds.  The outcomes when
\* CBC classifies the program correctly: the status, and with LpStatusOptimal any
\* optimal corner as the variables' varValue.
CbcSolve(prob) ==
    LET names == prob.names
        n == Len(names)
        bounds == [k \in 1..n |-> <<prob.variables[k].lowBound, prob.variables[k].upBound>>]
        Lhs(con, pt) == Dot(Row(con.coeffs, names), pt, 1)
        Objective(pt) == Dot(Row(prob.objective, names), pt, 1)
        Holds(con, pt, bound) ==
            CASE con.op = "<=" -> Lhs(con, pt) <= bound
              [] con.op = ">=" -> Lhs(con, pt) >= bound
              [] OTHER -> Lhs(con, pt) = bound
        Better(a, b) == IF prob.sense = "max" THEN a > b ELSE a < b
        Inside(pt) == \A k \in 1..Len(prob.constraints) :
                         Holds(prob.constraints[k], pt, prob.constraints[k].rhs * Scale)
        Recedes(pt) == /\ \A k \in 1..Len(prob.constraints) : Holds(prob.constraints[k], pt, 0)
                       /\ Better(Objective(pt), 0)
        feasible == {pt \in Points(bounds) : Inside(pt)}
        best == Corners({pt \in feasible :
                            \A q \in feasible : ~Better(Objective(q), Objective(pt))})
    IN IF feasible = {}
       THEN {[kind |-> "returned", status |-> LpStatusInfeasible, varValue |-> << >>]}
       ELSE IF \E pt \in Directions(bounds) : Recedes(pt)
       THEN {[kind |-> "returned", status |-> LpStatusUnbounded, varValue |-> << >>]}
       ELSE {[kind |-> "returned", status |-> LpStatusOptimal,
              varValue |-> [i \in 1..n |-> pt[i] * Half]] : pt \in best}

\* Outcomes when CBC gives up or answers with a code pulp has no name for.
CbcGaveUp ==
    {[kind |-> "returned", status |-> st, varValue |-> << >>] :
        st \in {LpStatusNotSolved, LpStatusUndefined, 2}}


\* ------------------------------------------------------------ input texts
\* A side of a line as it is written: items [sign, coef, var], var = "" for a
\* standalone number; coef is a whole number.
Item(sign, coef, var) == [sign |-> sign, coef |-> coef, var |-> var]

RECURSIVE NatText(_)
NatText(n) == IF n < 10 THEN Ch(Digits, n + 1) ELSE NatText(n \div 10) \o Ch(Digits, (n % 10) + 1)

\* "2x", "x" for coefficient 1, "2" for a number.
ItemText(it) == IF it.var # "" /\ it.coef = 1 THEN it.var ELSE NatText(it.coef) \o it.var

RECURSIVE RenderFrom(_, _)
RenderFrom(items, k) ==
    IF k > Len(items) THEN ""
    ELSE (IF items[k].sign < 0 THEN " - " ELSE " + ") \o ItemText(items[k])
         \o RenderFrom(items, k + 1)

\* "2x + y - 1": the first item carries its sign without blanks.
Render(items) ==
    IF items = << >> THEN ""
    ELSE (IF items[1].sign < 0 THEN "-" ELSE "") \o ItemText(items[1]) \o RenderFrom(items, 2)

Coefs == 1..MaxCoef
\* Variable terms: x with every coefficient, y bare.
VarItems == {Item(1, c, "x") : c \in Coefs} \cup {Item(1, 1, "y")}
NumItems == {Item(1, c, "") : c \in Coefs}
Negated(items) == {Item(-1, it.coef, it.var) : it \in items}
LaterItems == VarItems \cup NumItems \cup Negated(VarItems \cup NumItems)

LeftSides == {<<a>> : a \in VarItems} \cup {<<a, b>> : a \in VarItems, b \in LaterItems}
RightSides ==
    {<<a>> : a \in VarItems \cup NumItems}
        \cup {<<a, b>> : a \in VarItems \cup NumItems, b \in LaterItems}

\* The lists of known variables a line is parsed against.
VarLists == {<<"x", "y">>, <<"w", "y">>}

NoShape == [lhs |-> << >>, op |-> "", rhs |-> << >>]
LineShapes == [lhs : LeftSides, op : Range(Operators), rhs : RightSides]
LineText(shape) == Render(shape.lhs) \o " " \o shape.op \o " " \o Render(shape.rhs)

\* Sides of three items: a variable term, a number, and a number or a variable term.
LongSides ==
    {<<a, b, c>> : a \in VarItems, b \in NumItems \cup Negated(NumItems),
                   c \in NumItems \cup Negated(NumItems) \cup VarItems}

\* Objective texts: a side, or one with a coefficient float() rejects, or nothing.
ObjectiveShapes == [lhs : RightSides, op : {""}, rhs : {<< >>}]
LongObjectiveShapes == [lhs : LongSides, op : {""}, rhs : {<< >>}]
MalformedTexts == {".x", "x + .y", "2x - . y", ""}
\* Texts with whitespace other than blanks and tabs: a vertical tab between a
\* coefficient and its variable, separators around a text, a vertical tab or a
\* separator between a sign and a point or a number.
SeparatorTexts ==
    {"2" \o VT \o "x", FS \o "x + y" \o US \o GS, "x -" \o VT \o ".", "x +" \o RS \o "1",
     " " \o VT}
SeparatorLines ==
    {"x" \o VT \o "<=" \o FS \o "1", RS \o "2" \o GS \o "x >= y" \o US, "x <= -" \o VT \o "1",
     "y -" \o GS \o ". x = 1"}

\* Lines with a coefficient float() rejects, on either side, and texts without any of
\* the three operators.
MalformedLines == {".x <= 1", "x + .y = 2", "y >= . x", "2y <= 1 - .x"}
OperatorFree == {"x < 5", "x + y > 1", "2x"}

\* Lines with more than one operator or = sign, with the operator first, last, or
\* written apart or twice.
OperatorLines ==
    {"x <= 1 = 2", "x = 1 <= 2", "x >= y = 1", "x => 1", "x == 1", "x < = 1", "x<=1>=2",
     "<= 1", ">=2", " <= 1", "= x <= 1", "==1", "x <=", "x <= ", "=1"}

\* The ways a text is written: the prefix before the expression; what stands between a
\* sign and its number (gap) and between a coefficient and its variable (star); and
\* whether a number c is written whole ("2") or as tenths with a leading point (".2").
Form(prefix, gap, star, point) ==
    [prefix |-> prefix, gap |-> gap, star |-> star, point |-> point]
PlainForm == Form("", " ", "", FALSE)
Gaps == {"", " ", "  ", "\t"}
Stars == {"", "*", " * "}
Forms == {Form("", g, st, pt) : g \in Gaps, st \in Stars, pt \in BOOLEAN} \ {PlainForm}
Prefixes == {"Max Z = ", "min z=", "MAX\tZ =", "mIn  z  =  "}
PrefixForms == {Form(pre, " ", "", FALSE) : pre \in Prefixes}

\* Prefixes the pattern of parse_objective does not cover: the keyword written out, as
\* the app writes it (app.py line 199), another result symbol, no whitespace between
\* the keyword and the symbol; and the expressions written after them.
OtherPrefixes == {"Maximize Z = ", "minimize z=", "Max P = ", "MaxZ = "}
OtherPrefixForms == {Form(pre, " ", "", FALSE) : pre \in OtherPrefixes}
PrefixedExpressions == {"x + y", "2x - 1", ""}

\* An item in a form: "x" for coefficient 1, else the number, the star and the variable.
WriteItem(it, form) ==
    IF it.var # "" /\ it.coef = 1 THEN it.var
    ELSE (IF form.point THEN "." ELSE "") \o NatText(it.coef)
         \o (IF it.var # "" THEN form.star \o it.var ELSE "")

RECURSIVE WriteFrom(_, _, _)
WriteFrom(items, k, form) ==
    IF k > Len(items) THEN ""
    ELSE " " \o (IF items[k].sign < 0 THEN "-" ELSE "+") \o form.gap
         \o WriteItem(items[k], form) \o WriteFrom(items, k + 1, form)

\* A side in a form; in PlainForm this is Render.
Write(items, form) ==
    IF items = << >> THEN ""
    ELSE (IF items[1].sign < 0 THEN "-" ELSE "") \o WriteItem(items[1], form)
         \o WriteFrom(items, 2, form)

WriteLine(shape, form) ==
    Write(shape.lhs, form) \o " " \o shape.op \o " " \o Write(shape.rhs, form)

\* The lines written in every form: two variable terms on the left; on the right a
\* number, or a number and a term of x, or two numbers.
FormedLineShapes ==
    [lhs : {<<a, b>> : a \in VarItems, b \in Negated(VarItems) \cup {Item(1, 1, "y")}},
     op : Range(Operators),
     rhs : {<<n>> : n \in NumItems}
              \cup {<<Item(1, 1, ""), Item(-1, c, "x")>> : c \in Coefs}
              \cup {<<Item(1, 1, ""), Item(sg, c, "")>> : sg \in {1, -1}, c \in Coefs}]

\* Objective texts that are words, not a sum of terms.
WordObjectives == {"invalid objective"}

\* Objective texts of a solve call: c x + y, y + c x - 1 (y named first, a constant),
\* x - y, x alone, one with a coefficient float() rejects, words, and nothing.
SolveObjectives ==
    {Render(<<Item(1, c, "x"), Item(1, 1, "y")>>) : c \in Coefs}
        \cup {Render(<<Item(1, 1, "y"), Item(1, c, "x"), Item(-1, 1, "")>>) : c \in Coefs}
        \cup {"x - y", "x", ".x", ""}
        \cup WordObjectives

\* Constraint lines of a solve call, and lines that do not parse: no operator, a
\* coefficient float() rejects.
SolveLines ==
    {"x + y " \o op \o " " \o NatText(c) : op \in Range(Operators), c \in Coefs}
        \cup {"x <= " \o NatText(c) : c \in Coefs}
        \cup {"x <= 2 - y"}
BadLines == {"x", ".x <= 1"}
FirstLines == {"x + y <= " \o NatText(c) : c \in Coefs}
SecondLines == {"x + y >= " \o NatText(c) : c \in Coefs} \cup BadLines \cup {" "}

\* Constraints texts laid out with blank lines and with blanks around the lines, each
\* with the lines x + y op c it holds, in order.
XY(op, c) == [op |-> op, c |-> c]
XYText(line) == "x + y " \o line.op \o " " \o NatText(line.c)
Laid(text, lines) == [text |-> text, lines |-> lines]
Layouts ==
    {Laid("\n  " \o XYText(a) \o "\t\n\n \t \n" \o XYText(b) \o "  \n\n", <<a, b>>) :
        a \in {XY("<=", c) : c \in Coefs}, b \in {XY(">=", 1)}}
    \cup {Laid(XYText(a) \o "\r\n\r\n" \o XYText(b) \o "\r\n", <<a, b>>) :
        a \in {XY(">=", 1)}, b \in {XY("=", c) : c \in Coefs}}
    \cup {Laid(XYText(a) \o "\n" \o XYText(b), <<a, b>>) :
        a \in {XY("<=", c) : c \in Coefs}, b \in {XY(">=", c) : c \in Coefs}}
    \cup {Laid(XYText(a) \o "\n" \o " ", <<a>>) : a \in {XY("<=", c) : c \in Coefs}}

SolveConstraints ==
    {""} \cup SolveLines \cup BadLines
        \cup {a \o "\n" \o b : a \in FirstLines, b \in SecondLines}
        \cup {lay.text : lay \in Layouts}

\* ------------------------------------------------------------------ state
Solvers == {"highs", "pulp"}

\* The adapter instances there are: the two of Solvers and, for calls that run side by
\* side, a second instance of each class.
Highs == {"highs", "highs2"}
Pulps == {"pulp", "pulp2"}
Instances == Highs \cup Pulps

\* The names tempfile has to give to a scratch log file.
LogPaths == {"/tmp/tmp1.log", "/tmp/tmp2.log"}

VARIABLES
    \* the parser called on its own: the text, the known variables, how the text was
    \* built, which function was called and what it returned
    ptext, pvars, pshape, pstage, pres,
    \* the form the text was written in, and what parse_objective returned for the
    \* expression without its prefix
    pform, pbare,
    \* the groups the pattern of parse_constraint split the line into
    psides,
    \* the arguments of the solve call both adapters are given
    objective_text, constraints_text, is_maximize,
    \* per adapter: the position in solve, the instance's fields, the call's locals,
    \* what the backend answered, the returned Result, the backend invocations so far
    pc, self, frame, res, result, invoked,
    \* the scratch log files that exist, and per adapter the log_path of its call
    log_files, log_path,
    \* per adapter: the program the backend was handed in this call with the bounds of
    \* its variables, and one earlier call of the instance with what it returned
    passed, earlier,
    \* the app: the values the solve_problem callback is triggered with, the data of
    \* the solution-store, the position in the callback, and what it returned
    inputs, store, app_pc, outputs

parserVars == <<ptext, pvars, pshape, pstage, pres, pform, pbare, psides>>
solveVars == <<objective_text, constraints_text, is_maximize, pc, self, frame, res, result,
               invoked, log_files, log_path, passed, earlier>>
appVars == <<inputs, store, app_pc, outputs>>
vars == <<parserVars, solveVars, appVars>>

NoResult == [ok |-> FALSE, error |-> "not called"]
NoSides == [ok |-> FALSE, lhs |-> "", operator |-> "", rhs |-> ""]
NoFrame == [obj |-> NoResult, parsed_constraints |-> << >>]
NoRes == [kind |-> "none"]
NoReturn == [pending |-> TRUE]
NoCall == [called |-> FALSE]
NothingPassed == [program |-> << >>, bounds |-> << >>]

\* HiGHSSolver.__init__ and PuLPSolver.__init__; << >> stands for None.
NewInstance ==
    [p \in Instances |->
        IF p \in Highs
        THEN [solver_log |-> "", variables |-> << >>, c |-> << >>, A_ub |-> << >>,
              b_ub |-> << >>, A_eq |-> << >>, b_eq |-> << >>]
        ELSE [prob |-> << >>, variables |-> << >>, solver_log |-> ""]]

\* No callback is triggered.
NoInputs == [n_clicks |-> << >>, objective |-> << >>, constraints |-> << >>,
             objective_type |-> << >>, solver_type |-> << >>]
AppOff == inputs = NoInputs /\ store = << >> /\ app_pc = "Off" /\ outputs = << >>

ParserOff ==
    /\ ptext = "" /\ pvars = << >> /\ pshape = NoShape /\ pstage = "off" /\ pres = NoResult
    /\ pform = PlainForm /\ pbare = NoResult /\ psides = NoSides

SolveOff ==
    /\ objective_text = "" /\ constraints_text = "" /\ is_maximize = FALSE
    /\ pc = [p \in Instances |-> "Off"]
    /\ self = NewInstance
    /\ frame = [p \in Instances |-> NoFrame]
    /\ res = [p \in Instances |-> NoRes]
    /\ result = [p \in Instances |-> NoReturn]
    /\ invoked = [p \in Instances |-> 0]
    /\ log_files = {}
    /\ log_path = [p \in Instances |-> ""]
    /\ passed = [p \in Instances |-> NothingPassed]
    /\ earlier = [p \in Instances |-> NoCall]

\* ------------------------------------------------------ the parser harness
ParseInit ==
    /\ SolveOff
    /\ AppOff
    /\ pstage = "input"
    /\ pres = NoResult
    /\ pbare = NoResult
    /\ psides = NoSides
    /\ \/ /\ pshape \in LineShapes
          /\ pform = PlainForm
          /\ ptext = LineText(pshape)
          /\ pvars \in VarLists
       \/ /\ pshape \in ObjectiveShapes
          /\ pform = PlainForm
          /\ ptext = Render(pshape.lhs)
          /\ pvars \in {<< >>, <<"x", "y">>}
       \/ /\ pshape \in LongObjectiveShapes
          /\ pform = PlainForm
          /\ ptext = Render(pshape.lhs)
          /\ pvars = << >>
       \/ /\ pshape = NoShape
          /\ pform = PlainForm
          /\ \/ /\ ptext \in MalformedTexts
                /\ pvars \in {<< >>, <<"x", "y">>}
             \/ /\ ptext \in SeparatorTexts
                /\ pvars = << >>
             \/ /\ ptext \in SeparatorLines
                /\ pvars = <<"x", "y">>
             \/ /\ ptext \in MalformedLines \cup OperatorFree
                /\ pvars \in VarLists
             \/ /\ ptext \in OperatorLines
                /\ pvars = <<"x", "y">>
       \/ /\ pshape \in ObjectiveShapes
          /\ pform \in Forms \cup PrefixForms
          /\ ptext = pform.prefix \o Write(pshape.lhs, pform)
          /\ pvars = << >>
       \/ /\ pshape = NoShape
          /\ pform \in PrefixForms
          /\ ptext \in {pform.prefix \o t : t \in MalformedTexts}
          /\ pvars = << >>
       \/ /\ pshape = NoShape
          /\ pform \in OtherPrefixForms
          /\ ptext \in {pform.prefix \o t : t \in PrefixedExpressions}
          /\ pvars = << >>
       \/ /\ pshape \in FormedLineShapes
          /\ pform \in Forms
          /\ ptext = WriteLine(pshape, pform)
          /\ pvars = <<"x", "y">>

\* coefficients, operator, rhs = parse_constraint(ptext, pvars)
ParseConstraint ==
    /\ pstage = "input"
    /\ pvars # << >>
    /\ pres' = parse_constraint(ptext, pvars)
    /\ psides' = MatchConstraint(ptext)
    /\ pstage' = "constraint"
    /\ UNCHANGED <<ptext, pvars, pshape, pform, pbare, solveVars, appVars>>

\* coefficients, variables, constant = parse_objective(ptext), and the same call on
\* the expression alone, the text after its prefix.
ParseObjective ==
    /\ pstage = "input"
    /\ pvars = << >>
    /\ \E r \in {parse_objective(ptext)} :
          /\ pres' = r
          /\ pbare' = IF pform.prefix = "" THEN r
                      ELSE parse_objective(From(ptext, Len(pform.prefix) + 1))
    /\ pstage' = "objective"
    /\ UNCHANGED <<ptext, pvars, pshape, pform, psides, solveVars, appVars>>

ParseNext == ParseConstraint \/ ParseObjective

SpecParse == ParseInit /\ [][ParseNext]_vars

\* ---------------------------------------------------------- the solve call
SolveInit ==
    /\ ParserOff
    /\ AppOff
    /\ objective_text \in SolveObjectives
    /\ constraints_text \in SolveConstraints
    /\ is_maximize \in BOOLEAN
    /\ pc = [p \in Instances |-> IF p \in Solvers THEN "Idle" ELSE "Off"]
    /\ self = NewInstance
    /\ frame = [p \in Instances |-> NoFrame]
    /\ res = [p \in Instances |-> NoRes]
    /\ result = [p \in Instances |-> NoReturn]
    /\ invoked = [p \in Instances |-> 0]
    /\ log_files = {}
    /\ log_path = [p \in Instances |-> ""]
    /\ passed = [p \in Instances |-> NothingPassed]
    /\ earlier = [p \in Instances |-> NoCall]

\* The positions a call has returned at.
Returned == {"ParseFailed", "Optimal", "Infeasible", "Unbounded", "OtherFailure"}

\* A caller enters solve(objective_text, constraints_text, is_maximize) on instance p.
Enter(p) ==
    /\ pc[p] = "Idle"
    /\ pc' = [pc EXCEPT ![p] = "Parsing"]
    /\ UNCHANGED <<appVars, parserVars, objective_text, constraints_text, is_maximize, self, frame,
                   res, result, invoked, log_files, log_path, passed, earlier>>

\* The callers call one after the other: solve is synchronous and no other call is
\* under way when one is entered.
Call(p) ==
    /\ \A q \in Instances \ {p} : pc[q] \in {"Off", "Idle"} \cup Returned
    /\ Enter(p)

\* Caught without the except clause: the exception leaves solve, no Result is returned.
Propagated(e) == [raised |-> e]

\* `except Exception as e: return {"success": False, "error": str(e)}`
Caught(e) == [success |-> FALSE, error |-> e]

\* UbRow with the coefficients of a >= line negated and its rhs left as written.
UbRowRhsKept(con, variables) ==
    IF con.op = ">=" THEN [a |-> Neg(Row(con.coeffs, variables)), b |-> con.rhs]
    ELSE [a |-> Row(con.coeffs, variables), b |-> con.rhs]

\* UbRow without the negation of a >= line.
UbRowAsWritten(con, variables) == [a |-> Row(con.coeffs, variables), b |-> con.rhs]

\* The inequality rows of HiGHSSolver.solve (lines 75-81): a <= line as parsed, a >=
\* line negated.
UbRow(con, variables) ==
    IF con.op = ">=" THEN [a |-> Neg(Row(con.coeffs, variables)), b |-> 0 - con.rhs]
    ELSE [a |-> Row(con.coeffs, variables), b |-> con.rhs]

RECURSIVE UbRows(_, _)
UbRows(cons, variables) ==
    IF cons = << >> THEN << >>
    ELSE (IF Head(cons).op \in {"<=", ">="} THEN <<UbRow(Head(cons), variables)>> ELSE << >>)
         \o UbRows(Tail(cons), variables)

\* The equality rows (lines 82-84).
RECURSIVE EqRows(_, _)
EqRows(cons, variables) ==
    IF cons = << >> THEN << >>
    ELSE (IF Head(cons).op \notin {"<=", ">="}
          THEN <<[a |-> Row(Head(cons).coeffs, variables), b |-> Head(cons).rhs]>>
          ELSE << >>)
         \o EqRows(Tail(cons), variables)

Column(rows, field) == [r \in 1..Len(rows) |-> rows[r][field]]

\* self.c (lines 51-53): the objective in the sorted order, negated to maximise.
CostVector(obj_coeffs, variables, maximize) ==
    IF maximize THEN Neg(Row(obj_coeffs, variables)) ELSE Row(obj_coeffs, variables)

\* HiGHSSolver.solve, lines 46-97: the objective and every line are parsed and the
\* matrices built, or the first error is returned.
ParseHighs ==
    \E p \in Highs :
       /\ pc[p] = "Parsing"
       /\ \E obj \in {parse_objective(objective_text)} :
          \E variables \in {sorted(obj.variables)} :
          \E c \in {CostVector(obj.coefficients, variables, is_maximize)},
             lines \in {ParseLines(ConstraintLines(constraints_text), 1, variables, << >>)} :
          \E ub \in {UbRows(lines.parsed_constraints, variables)},
             eq \in {EqRows(lines.parsed_constraints, variables)} :
             IF ~obj.ok
             THEN /\ result' = [result EXCEPT ![p] = Caught(obj.error)]
                  /\ pc' = [pc EXCEPT ![p] = "ParseFailed"]
                  /\ UNCHANGED <<self, frame>>
             ELSE IF ~lines.ok
             THEN /\ result' = [result EXCEPT ![p] = Caught(lines.error)]
                  /\ pc' = [pc EXCEPT ![p] = "ParseFailed"]
                  /\ self' = [self EXCEPT ![p].variables = variables, ![p].c = c]
                  /\ UNCHANGED frame
             ELSE /\ self' = [self EXCEPT
                                 ![p].variables = variables, ![p].c = c,
                                 ![p].A_ub = Column(ub, "a"), ![p].b_ub = Column(ub, "b"),
                                 ![p].A_eq = Column(eq, "a"), ![p].b_eq = Column(eq, "b")]
                  /\ frame' = [frame EXCEPT ![p] =
                                 [obj |-> obj, parsed_constraints |-> lines.parsed_constraints]]
                  /\ pc' = [pc EXCEPT ![p] = "ModelBuilt"]
                  /\ UNCHANGED result
       /\ UNCHANGED <<appVars, parserVars, objective_text, constraints_text, is_maximize, res,
                      invoked, log_files, log_path, passed, earlier>>

\* PulpProblem on the problem the instance already holds, when it holds one: the lines
\* are added to those of the call before.
PulpProblemReused(obj, maximize, cons) ==
    [sense |-> IF maximize THEN "max" ELSE "min",
     names |-> obj.variables,
     variables |-> [k \in 1..Len(obj.variables) |->
                      [name |-> obj.variables[k], lowBound |-> <<0>>, upBound |-> << >>]],
     objective |-> obj.coefficients,
     constraints |-> IF "constraints" \in DOMAIN self["pulp"].prob
                     THEN self["pulp"].prob.constraints \o cons
                     ELSE cons,
     status |-> LpStatusNotSolved]

\* pulp.LpVariable(name, lowBound=lowBound): no upper bound is given.
LpVariable(name, lowBound) == [name |-> name, lowBound |-> lowBound, upBound |-> << >>]

\* The pulp problem (lines 38-74): the sense, a variable with lowBound=0 for every name
\* (lines 44-46), the objective, and each line as parsed, operator kept.
PulpProblem(obj, maximize, cons) ==
    [sense |-> IF maximize THEN "max" ELSE "min",
     names |-> obj.variables,
     variables |-> [k \in 1..Len(obj.variables) |-> LpVariable(obj.variables[k], <<0>>)],
     objective |-> obj.coefficients,
     constraints |-> cons,
     status |-> LpStatusNotSolved]

\* PuLPSolver.solve, lines 33-80: the objective is parsed, the problem created and every
\* line parsed and added, or the first error is returned.
ParsePulp ==
    \E p \in Pulps :
       /\ pc[p] = "Parsing"
       /\ \E obj \in {parse_objective(objective_text)} :
          \E variable_names \in {obj.variables} :
          \E lines \in {ParseLines(ConstraintLines(constraints_text), 1, variable_names,
                                   << >>)} :
          \E prob \in {PulpProblem(obj, is_maximize, lines.parsed_constraints)} :
             IF ~obj.ok
             THEN /\ result' = [result EXCEPT ![p] = Caught(obj.error)]
                  /\ pc' = [pc EXCEPT ![p] = "ParseFailed"]
                  /\ UNCHANGED <<self, frame>>
             ELSE /\ self' = [self EXCEPT ![p].prob = prob, ![p].variables = variable_names]
                  /\ IF ~lines.ok
                     THEN /\ result' = [result EXCEPT ![p] = Caught(lines.error)]
                          /\ pc' = [pc EXCEPT ![p] = "ParseFailed"]
                          /\ UNCHANGED frame
                     ELSE /\ frame' = [frame EXCEPT ![p] =
                                         [obj |-> obj,
                                          parsed_constraints |-> lines.parsed_constraints]]
                          /\ pc' = [pc EXCEPT ![p] = "ModelBuilt"]
                          /\ UNCHANGED result
       /\ UNCHANGED <<appVars, parserVars, objective_text, constraints_text, is_maximize, res,
                      invoked, log_files, log_path, passed, earlier>>

\* The bounds of every variable left free.
FreeBounds == <<<< >>, << >>>>

\* bounds=(0, None) of the linprog call (line 106)
VariableBounds == <<<<0>>, << >>>>

\* linprog is called (lines 100-109): it returns a result or raises.
InvokeHighs ==
    \E p \in Highs :
    LET me == self[p]
    IN /\ pc[p] = "ModelBuilt"
       /\ \E r \in linprog(me.c, me.A_ub, me.b_ub, me.A_eq, me.b_eq, VariableBounds)
                      \cup linprogGaveUp \cup {BackendRaised} :
             res' = [res EXCEPT ![p] = r]
       /\ passed' = [passed EXCEPT ![p] =
                        [program |-> <<me.c, me.A_ub, me.b_ub, me.A_eq, me.b_eq>>,
                         bounds |-> [i \in 1..Len(me.c) |-> VariableBounds]]]
       /\ invoked' = [invoked EXCEPT ![p] = @ + 1]
       /\ pc' = [pc EXCEPT ![p] = "Solving"]
       /\ UNCHANGED <<appVars, parserVars, objective_text, constraints_text, is_maximize,
                      self, frame, result, log_files, log_path, earlier>>

\* What becomes of the log file CBC was told to write: it can be read afterwards, or
\* open() or read() raises.
LogOutcomes == {"written", "unreadable"}
WithLog(answer, log) ==
    [kind |-> answer.kind, status |-> answer.status, varValue |-> answer.varValue,
     log |-> log]

\* NamedTemporaryFile with one name for every scratch log.
FixedLogName(files) == {"/tmp/tmp1.log"}

\* tempfile.NamedTemporaryFile(mode="w+", delete=False, suffix=".log") (lines 122-125):
\* the file is created under a random name that no existing file has.
NamedTemporaryFile(files) == LogPaths \ files

\* _solve_with_logging up to the call of prob.solve (lines 122-128): the scratch log is
\* created and CBC is started on the problem; the call waits for it.
InvokePulp ==
    \E p \in Pulps :
       /\ pc[p] = "ModelBuilt"
       /\ \E path \in NamedTemporaryFile(log_files) :
             /\ log_path' = [log_path EXCEPT ![p] = path]
             /\ log_files' = log_files \cup {path}
       /\ passed' = [passed EXCEPT ![p] =
                        [program |-> self[p].prob,
                         bounds |-> [k \in DOMAIN self[p].prob.variables |->
                                        <<self[p].prob.variables[k].lowBound,
                                          self[p].prob.variables[k].upBound>>]]]
       /\ invoked' = [invoked EXCEPT ![p] = @ + 1]
       /\ pc' = [pc EXCEPT ![p] = "Solving"]
       /\ UNCHANGED <<appVars, parserVars, objective_text, constraints_text, is_maximize,
                      self, frame, res, result, earlier>>

\* prob.solve returns or raises (line 128): CBC has ended; it has set the status and the
\* values and left the log, or the call raised.
CbcReturns ==
    \E p \in Pulps :
       /\ pc[p] = "Solving"
       /\ res[p] = NoRes
       /\ \E r \in {WithLog(a, log) : a \in CbcSolve(self[p].prob) \cup CbcGaveUp,
                                        log \in LogOutcomes}
                      \cup {BackendRaised} :
             /\ res' = [res EXCEPT ![p] = r]
             /\ self' = IF r.kind = "returned"
                        THEN [self EXCEPT ![p].prob.status = r.status]
                        ELSE self
       /\ UNCHANGED <<appVars, parserVars, objective_text, constraints_text, is_maximize,
                      pc, frame, result, invoked, log_files, log_path, passed, earlier>>

\* The scratch log removed only when the try block ran to its end.
RemovedAfterRead(files, path, raised) == IF raised THEN files ELSE files \ {path}

\* The finally clause of _solve_with_logging (lines 133-136): the files there are once
\* the try block has ended, by running to its end or by raising.
Finally(files, path, raised) == files \ {path}

\* HiGHSSolver._get_status_string
HighsStatusString(status) ==
    CASE status = 0 -> "optimal"
      [] status = 1 -> "iteration_limit"
      [] status = 2 -> "infeasible"
      [] status = 3 -> "unbounded"
      [] OTHER -> "unknown"

\* PuLPSolver._get_status_string
PulpStatusString(status) ==
    CASE status = LpStatusNotSolved -> "not_solved"
      [] status = LpStatusInfeasible -> "infeasible"
      [] status = LpStatusUnbounded -> "unbounded"
      [] status = LpStatusUndefined -> "undefined"
      [] OTHER -> "unknown"

\* Terminal with a status other than optimal, infeasible and unbounded sending the call
\* back to the built model, to hand it to the backend once more.
TerminalRetrying(status) ==
    CASE status = "optimal" -> "Optimal"
      [] status = "infeasible" -> "Infeasible"
      [] status = "unbounded" -> "Unbounded"
      [] OTHER -> "ModelBuilt"

\* The state a call ends in, by the status it reports.
Terminal(status) ==
    CASE status = "optimal" -> "Optimal"
      [] status = "infeasible" -> "Infeasible"
      [] status = "unbounded" -> "Unbounded"
      [] OTHER -> "OtherFailure"

\* Failure with the values of a success Result left in.
FailureWithValues(status, solver_log) ==
    [success |-> FALSE, status |-> status, solver_log |-> solver_log, log |-> solver_log,
     error |-> "Optimization failed: " \o status, solution |-> << >>, objective_value |-> 0]

\* The failure Result of both adapters (highs_solver.py 141-147, pulp_solver.py 108-114).
Failure(status, solver_log) ==
    [success |-> FALSE, status |-> status, solver_log |-> solver_log, log |-> solver_log,
     error |-> "Optimization failed: " \o status]

\* A dict as its items in insertion order: {var: values[i] for i, var in enumerate(names)}
Items(names, values) == [i \in 1..Len(names) |-> <<names[i], values[i]>>]

\* The k digits of n, zeros first.
RECURSIVE PadNat(_, _)
PadNat(n, k) == IF k = 0 THEN "" ELSE PadNat(n \div 10, k - 1) \o Ch(Digits, (n % 10) + 1)
RECURSIVE RStripZeros(_)
RStripZeros(s) ==
    IF Len(s) > 0 /\ Ch(s, Len(s)) = "0" THEN RStripZeros(Sub(s, 1, Len(s) - 1)) ELSE s
RECURSIVE Blanks(_)
Blanks(k) == IF k <= 0 THEN "" ELSE " " \o Blanks(k - 1)
RECURSIVE Join(_, _)
Join(parts, k) ==
    IF k > Len(parts) THEN ""
    ELSE (IF k > 1 THEN " " ELSE "") \o parts[k] \o Join(parts, k + 1)

\* str() of a one-dimensional numpy array of floats: every number with its sign and
\* whole part, a point, and the fraction digits it needs; the numbers are padded with
\* blanks to one width, before the whole part and after the fraction ("[0.  1.5]").
ArrayStr(a) ==
    LET Abs(v) == IF v < 0 THEN 0 - v ELSE v
        Whole(v) == (IF v < 0 THEN "-" ELSE "") \o NatText(Abs(v) \div Scale)
        Frac(v) == RStripZeros(PadNat(Abs(v) % Scale, FracDigits))
        Most(lens) == CHOOSE m \in lens : \A l \in lens : l <= m
        w == Most({Len(Whole(a[i])) : i \in DOMAIN a})
        f == Most({Len(Frac(a[i])) : i \in DOMAIN a})
        Cell(v) == Blanks(w - Len(Whole(v))) \o Whole(v) \o "." \o Frac(v)
                      \o Blanks(f - Len(Frac(v)))
    IN IF a = << >> THEN "[]"
       ELSE "[" \o Join([i \in DOMAIN a |-> Cell(a[i])], 1) \o "]"

\* The log text (lines 112-116): the message, the iteration count, the success flag
\* and, as every result of linprog has a slack, the slack array or None.  The source
\* writes \\n in the f-strings: a backslash and an n, not a newline.
HighsLog(r) ==
    "HiGHS Solver Status: " \o r.message \o "\\n"
        \o "Iterations: " \o NatText(r.nit) \o "\\n"
        \o "Success: " \o (IF r.success THEN "True" ELSE "False") \o "\\n"
        \o "\\nSlack variables: "
        \o (IF r.slack = << >> THEN "None" ELSE ArrayStr(r.slack[1])) \o "\\n"

\* HighsOptimalValue without the sign restored when maximizing.
HighsOptimalValueAsMinimised(fun, maximize, obj_constant) == fun + obj_constant

\* optimal_value of HiGHSSolver.solve (lines 122-123)
HighsOptimalValue(fun, maximize, obj_constant) ==
    (IF maximize THEN 0 - fun ELSE fun) + obj_constant

\* The Result HiGHSSolver.solve returns once linprog has answered r or raised (lines
\* 111-151).
HighsResult(r, obj, variables, parsed_constraints, maximize) ==
    LET solver_log == HighsLog(r)
        solution == Items(variables, r.x)
        optimal_value == HighsOptimalValue(r.fun, maximize, obj.constant)
        status == HighsStatusString(r.status)
    IN IF r.kind = "raised" THEN Caught(r.error)
       ELSE IF r.success
       THEN [success |-> TRUE, status |-> "optimal", solution |-> solution,
             optimal_value |-> optimal_value,
             objective_value |-> optimal_value, variables |-> solution,
             variable_names |-> variables,
             objective_coeffs |-> obj.coefficients,
             objective_constant |-> obj.constant,
             constraints |-> parsed_constraints,
             solver_log |-> solver_log, log |-> solver_log,
             is_maximize |-> maximize,
             problem |-> [variables |-> variables]]
       ELSE Failure(status, solver_log)

\* HiGHSSolver.solve, lines 111-151: the log is built and the Result returned; an
\* exception of linprog is caught.
FinishHighs ==
    \E p \in Highs :
    LET r == res[p]
    IN /\ pc[p] = "Solving"
       /\ result' = [result EXCEPT ![p] =
                        HighsResult(r, frame[p].obj, self[p].variables,
                                    frame[p].parsed_constraints, is_maximize)]
       /\ IF r.kind = "raised"
          THEN /\ pc' = [pc EXCEPT ![p] = "OtherFailure"]
               /\ UNCHANGED self
          ELSE /\ self' = [self EXCEPT ![p].solver_log = HighsLog(r)]
               /\ pc' = [pc EXCEPT ![p] = IF r.success THEN "Optimal"
                                          ELSE Terminal(HighsStatusString(r.status))]
       /\ UNCHANGED <<appVars, parserVars, objective_text, constraints_text, is_maximize,
                      frame, res, invoked, log_files, log_path, passed, earlier>>

\* pulp.value(prob.objective): the objective at the variables' values.
RECURSIVE PulpValue(_, _, _, _)
PulpValue(objective, names, varValue, k) ==
    IF k > Len(names) THEN 0
    ELSE (Get(objective, names[k]) * varValue[k]) \div Scale
         + PulpValue(objective, names, varValue, k + 1)

\* What CBC wrote to the log file: its banner, the rest of the text left out.
CbcLog(r) == "Welcome to the CBC MILP Solver \n"

\* The Result PuLPSolver.solve returns once CBC has answered r or raised and the log
\* was read or reading it raised (lines 85-118).
PulpResult(r, readable, obj, parsed_constraints, prob, maximize) ==
    LET variable_names == obj.variables
        solver_log == CbcLog(r)
        solution == Items(variable_names, r.varValue)
        optimal_value == PulpValue(obj.coefficients, variable_names, r.varValue, 1)
                            + obj.constant
        status == PulpStatusString(r.status)
    IN IF r.kind = "raised" THEN Caught(r.error)
       ELSE IF ~readable THEN Caught("cannot read the log file")
       ELSE IF r.status = LpStatusOptimal
       THEN [success |-> TRUE, status |-> "optimal", solution |-> solution,
             optimal_value |-> optimal_value,
             objective_value |-> optimal_value, variables |-> solution,
             variable_names |-> variable_names,
             objective_coeffs |-> obj.coefficients,
             objective_constant |-> obj.constant,
             constraints |-> parsed_constraints,
             solver_log |-> solver_log, log |-> solver_log,
             is_maximize |-> maximize,
             problem |-> prob]
       ELSE Failure(status, solver_log)

\* The rest of _solve_with_logging (lines 130-136) and PuLPSolver.solve, lines 85-118:
\* the log is read (open or read raises when the file cannot be read or is not there),
\* the scratch file removed on every path and log_path gone with the method's return,
\* the Result returned; an exception of CBC or of reading the log is caught.
FinishPulp ==
    \E p \in Pulps :
    LET r == res[p]
        raised == r.kind = "raised"
        readable == ~raised /\ r.log = "written" /\ log_path[p] \in log_files
    IN /\ pc[p] = "Solving"
       /\ res[p] # NoRes
       /\ log_files' = Finally(log_files, log_path[p], ~readable)
       /\ log_path' = [log_path EXCEPT ![p] = ""]
       /\ result' = [result EXCEPT ![p] =
                        PulpResult(r, readable, frame[p].obj, frame[p].parsed_constraints,
                                   self[p].prob, is_maximize)]
       /\ IF ~readable
          THEN /\ pc' = [pc EXCEPT ![p] = "OtherFailure"]
               /\ UNCHANGED self
          ELSE /\ self' = [self EXCEPT ![p].solver_log = CbcLog(r)]
               /\ pc' = [pc EXCEPT ![p] = IF r.status = LpStatusOptimal THEN "Optimal"
                                          ELSE Terminal(PulpStatusString(r.status))]
       /\ UNCHANGED <<appVars, parserVars, objective_text, constraints_text, is_maximize,
                      frame, res, invoked, passed, earlier>>

Next ==
    \/ \E p \in Solvers : Call(p)
    \/ ParseHighs
    \/ ParsePulp
    \/ InvokeHighs
    \/ InvokePulp
    \/ CbcReturns
    \/ FinishHighs
    \/ FinishPulp

Spec == SolveInit /\ [][Next]_vars

\* The position b comes next after the position a in solve.
Follows(a, b) ==
    CASE a = "Idle" -> b = "Parsing"
      [] a = "Parsing" -> b \in {"ParseFailed", "ModelBuilt"}
      [] a = "ModelBuilt" -> b = "Solving"
      [] a = "Solving" -> b \in {"Optimal", "Infeasible", "Unbounded", "OtherFailure"}
      [] OTHER -> FALSE

\* The call of p is under way and moves on to a next position.
Advance(p) ==
    /\ pc[p] \in {"Parsing", "ModelBuilt", "Solving"}
    /\ \E b \in {"ParseFailed", "ModelBuilt", "Solving"} \cup Returned :
          /\ Follows(pc[p], b)
          /\ pc' = [pc EXCEPT ![p] = b]

\* solve is an ordinary synchronous method: once entered it runs on, statement after
\* statement, and the backend call returns or raises; a call that is under way does
\* not stay where it is for ever.
FairSpec == Spec /\ \A p \in Solvers : WF_pc(Advance(p))

\* ------------------------------------------- several calls on one instance
\* The arguments of the calls made on one instance, one after the other.
RepeatInputs ==
    {<<"x + y", "x + y <= 2", TRUE>>,
     <<"x", "", FALSE>>,
     <<"x", "", TRUE>>,
     <<"x + y", "x", TRUE>>,
     <<".x", "x <= 1", FALSE>>,
     <<"x + y", "x + y <= 1\nx + y >= 2", FALSE>>}

\* One adapter instance is created and solve is called on it.
RepeatInit ==
    /\ ParserOff
    /\ AppOff
    /\ \E args \in RepeatInputs :
          /\ objective_text = args[1]
          /\ constraints_text = args[2]
          /\ is_maximize = args[3]
    /\ \E a \in Solvers : pc = [p \in Instances |-> IF p = a THEN "Idle" ELSE "Off"]
    /\ self = NewInstance
    /\ frame = [p \in Instances |-> NoFrame]
    /\ res = [p \in Instances |-> NoRes]
    /\ result = [p \in Instances |-> NoReturn]
    /\ invoked = [p \in Instances |-> 0]
    /\ log_files = {}
    /\ log_path = [p \in Instances |-> ""]
    /\ passed = [p \in Instances |-> NothingPassed]
    /\ earlier = [p \in Instances |-> NoCall]

\* The call of p that has returned: its arguments, the program its backend was handed,
\* what the backend answered and the Result.
ThisCall(p) ==
    [called |-> TRUE, objective_text |-> objective_text,
     constraints_text |-> constraints_text, is_maximize |-> is_maximize,
     passed |-> passed[p], res |-> res[p], result |-> result[p]]

\* The call of p has returned its Result; the caller is about to call solve on the same
\* instance again, with any arguments.  The locals of the finished call are gone, the
\* fields of the instance stay as the call left them.
Again(p) ==
    /\ pc[p] \in Returned
    /\ \A q \in Instances \ {p} : pc[q] \in {"Off", "Idle"} \cup Returned
    /\ \E args \in RepeatInputs :
          /\ objective_text' = args[1]
          /\ constraints_text' = args[2]
          /\ is_maximize' = args[3]
    /\ \E e \in {earlier[p], ThisCall(p)} : earlier' = [earlier EXCEPT ![p] = e]
    /\ pc' = [pc EXCEPT ![p] = "Idle"]
    /\ frame' = [frame EXCEPT ![p] = NoFrame]
    /\ res' = [res EXCEPT ![p] = NoRes]
    /\ result' = [result EXCEPT ![p] = NoReturn]
    /\ invoked' = [invoked EXCEPT ![p] = 0]
    /\ passed' = [passed EXCEPT ![p] = NothingPassed]
    /\ UNCHANGED <<appVars, parserVars, self, log_files, log_path>>

RepeatNext ==
    \/ Next
    \/ \E p \in Solvers : Again(p)

SpecRepeat == RepeatInit /\ [][RepeatNext]_vars

\* ------------------------------------------------- calls running side by side
\* Two callers, each with an adapter instance of its own, call solve with the same
\* arguments from two threads; the calls' steps interleave in any order.
ConcurrentInit ==
    /\ ParserOff
    /\ AppOff
    /\ \E args \in RepeatInputs :
          /\ objective_text = args[1]
          /\ constraints_text = args[2]
          /\ is_maximize = args[3]
    /\ \E a, b \in Instances :
          /\ a # b
          /\ pc = [p \in Instances |-> IF p \in {a, b} THEN "Idle" ELSE "Off"]
    /\ self = NewInstance
    /\ frame = [p \in Instances |-> NoFrame]
    /\ res = [p \in Instances |-> NoRes]
    /\ result = [p \in Instances |-> NoReturn]
    /\ invoked = [p \in Instances |-> 0]
    /\ log_files = {}
    /\ log_path = [p \in Instances |-> ""]
    /\ passed = [p \in Instances |-> NothingPassed]
    /\ earlier = [p \in Instances |-> NoCall]

ConcurrentNext ==
    \/ \E p \in Instances : Enter(p)
    \/ ParseHighs
    \/ ParsePulp
    \/ InvokeHighs
    \/ InvokePulp
    \/ CbcReturns
    \/ FinishHighs
    \/ FinishPulp

SpecConcurrent == ConcurrentInit /\ [][ConcurrentNext]_vars

\* ------------------------------------------------------------ the app callback
\* A value of the page, or None: << >> stands for None, <<v>> for the value v.
None == << >>
Some(v) == <<v>>

\* `not n_clicks` and `not objective`: None, 0 and the empty text are missing.
MissingClicks(n) == n = None \/ n[1] = 0
MissingText(t) == t = None \/ t[1] = ""
MissingInputs(in) ==
    MissingClicks(in.n_clicks) \/ MissingText(in.objective) \/ MissingText(in.constraints)

RECURSIVE LowerText(_)
LowerText(s) == IF s = "" THEN "" ELSE Lower(Ch(s, 1)) \o LowerText(From(s, 2))

\* re.sub(r"^(max(imize)?|min(imize)?)\s*Z\s*=\s*", "", objective,
\*        flags=re.IGNORECASE).strip() (app.py lines 193-195): the pattern is tried at the
\* first character of the text as typed, the result is stripped afterwards.
CleanObjective(objective) ==
    LET word == LowerText(Sub(objective, 1, 3))
        a == SkipSpace(objective, IF LowerText(Sub(objective, 4, 8)) = "imize" THEN 9 ELSE 4)
        b == SkipSpace(objective, a + 1)
        c == SkipSpace(objective, b + 1)
    IN strip(IF /\ word \in {"max", "min"}
                /\ Lower(Ch(objective, a)) = "z"
                /\ Ch(objective, b) = "="
             THEN From(objective, c)
             ELSE objective)

\* Objectives as typed into the page: an expression, before it one of the prefixes or
\* none, and before that a blank or nothing.
TypedLeads == {"", " "}
TypedPrefixes == {"", "Maximize Z = ", "minimize z=", "Min Z = ", "MAXZ="}
TypedExpressions == {"x + y", "2x + y"}
Typed(text, expr) == [text |-> text, expr |-> expr]
TypedObjectives ==
    {Typed(lead \o prefix \o expr, expr) :
        lead \in TypedLeads, prefix \in TypedPrefixes, expr \in TypedExpressions}
TypedConstraints == {"x + y <= 2", "x <= 1\nx + y >= 1"}

\* The data the solution-store holds from an earlier solve.
EarlierData == [success |-> FALSE, error |-> "earlier", solver_log |-> ""]

\* The button, the two text inputs and the two selectors (input_panel.py lines 18-42)
\* hold any of their values when the callback is triggered, a selector one of its
\* options or, once cleared, None; the store holds nothing or the data of an earlier
\* solve.
AppInit ==
    /\ ParserOff
    /\ SolveOff
    /\ inputs \in [n_clicks : {None, Some(0), Some(1)},
                   objective : {None, Some("")} \cup {Some(t.text) : t \in TypedObjectives},
                   constraints : {None, Some("")} \cup {Some(t) : t \in TypedConstraints},
                   objective_type : {None, Some("maximize"), Some("minimize")},
                   solver_type : {None, Some("highs"), Some("pulp")}]
    /\ store \in {None, Some(EarlierData)}
    /\ app_pc = "Triggered"
    /\ outputs = None

\* The adapter the solver selector names (app.py lines 204-209).
SelectedSolver(in) == IF in.solver_type = Some("highs") THEN "highs" ELSE "pulp"

\* The four values the callback returns: the data for the store (no_update leaves the
\* store as it is), the overlay's visibility and the error texts of the two inputs.
NoUpdate == [no_update |-> TRUE]
Outputs(data, objective_error, constraints_error) ==
    [data |-> data, visible |-> FALSE, objective_error |-> objective_error,
     constraints_error |-> constraints_error]

\* The except clause of solve_problem (app.py lines 268-279): the exception e raised in
\* the try block gives error_data, without a solver_log, and Check format twice.
Unexpected(e) ==
    Outputs([success |-> FALSE, error |-> "An unexpected error occurred: " \o e],
            Some("Check format"), Some("Check format"))

\* str(e) of the AttributeError a method call on None raises.
NoneHasNo(attribute) == "'NoneType' object has no attribute '" \o attribute \o "'"

\* solve_problem up to the call of solve (app.py lines 180-210): with a missing input
\* it returns no_update for the store; otherwise it cleans the objective, takes the
\* direction from the type selector, creates the selected adapter and calls its solve.
\* With the type selector cleared objective_type.capitalize() (line 199) raises, with
\* the solver selector cleared solver_type.upper() (line 203) does, and the except
\* clause returns error data: no adapter is created.
solve_problem ==
    /\ app_pc = "Triggered"
    /\ IF MissingInputs(inputs)
       THEN /\ outputs' = Outputs(NoUpdate, None, None)
            /\ app_pc' = "Returned"
            /\ UNCHANGED <<store, solveVars>>
       ELSE IF inputs.objective_type = None \/ inputs.solver_type = None
       THEN /\ outputs' = Unexpected(NoneHasNo(IF inputs.objective_type = None
                                                THEN "capitalize" ELSE "upper"))
            /\ store' = Some(outputs'.data)
            /\ app_pc' = "Returned"
            /\ UNCHANGED solveVars
       ELSE \E p \in {SelectedSolver(inputs)} :
               /\ objective_text' = CleanObjective(inputs.objective[1])
               /\ constraints_text' = inputs.constraints[1]
               /\ is_maximize' = (inputs.objective_type = Some("maximize"))
               /\ self' = [self EXCEPT ![p] = NewInstance[p]]
               /\ pc' = [pc EXCEPT ![p] = "Parsing"]
               /\ app_pc' = "Solving"
               /\ UNCHANGED <<store, outputs, frame, res, result, invoked, log_files,
                              log_path, passed, earlier>>
    /\ UNCHANGED <<inputs, parserVars>>

\* The data solve_problem returns for the store (app.py lines 213-262): of a success
\* the values, the status and the log, of a failure the error and the log if any.
SolutionData(solution) ==
    IF solution.success
    THEN [success |-> TRUE,
          variables |-> solution.variables,
          objective_value |-> solution.objective_value,
          status |-> solution.status,
          solution |-> solution.variables,
          optimal_value |-> solution.objective_value,
          solver_log |-> solution.log]
    ELSE [success |-> FALSE,
          error |-> solution.error,
          solver_log |-> IF "log" \in DOMAIN solution THEN solution.log ELSE ""]

\* solve_problem once solve has returned (app.py lines 211-267): the data is returned
\* for the store; a Result has no objective_error and no constraint_error, so
\* solution.get gives None for both error texts.
solve_problem_return ==
    /\ app_pc = "Solving"
    /\ \E p \in {SelectedSolver(inputs)} :
          /\ pc[p] \in Returned
          /\ outputs' = Outputs(SolutionData(result[p]), None, None)
          /\ store' = Some(SolutionData(result[p]))
    /\ app_pc' = "Returned"
    /\ UNCHANGED <<inputs, parserVars, solveVars>>

AppNext ==
    \/ solve_problem
    \/ ParseHighs \/ ParsePulp
    \/ InvokeHighs \/ InvokePulp \/ CbcReturns
    \/ FinishHighs \/ FinishPulp
    \/ solve_problem_return

SpecApp == AppInit /\ [][AppNext]_vars

\* ------------------------------------------------- claims about the parser
RECURSIVE SumItems(_, _, _)
SumItems(items, k, var) ==
    IF k > Len(items) THEN 0
    ELSE (IF items[k].var = var THEN items[k].sign * items[k].coef * Scale ELSE 0)
         + SumItems(items, k + 1, var)

ItemVars(items) == {items[k].var : k \in 1..Len(items)} \ {""}
Count(items, var) == Cardinality({k \in 1..Len(items) : items[k].var = var})

\* The line rearranged by hand: every variable moved to the left, every number to the right.
HandCoef(shape, var) == SumItems(shape.lhs, 1, var) - SumItems(shape.rhs, 1, var)
HandRhs(shape) == SumItems(shape.rhs, 1, "") - SumItems(shape.lhs, 1, "")

\* A line of terms over the known variables, with a variable term on both sides.
TwoSided(shape, variables) ==
    /\ shape.op # ""
    /\ ItemVars(shape.lhs) # {} /\ ItemVars(shape.rhs) # {}
    /\ ItemVars(shape.lhs) \cup ItemVars(shape.rhs) \subseteq Range(variables)

\* No variable is written twice on one side and the right side holds at most one number.
Plain(shape) ==
    /\ \A v \in ItemVars(shape.lhs) : Count(shape.lhs, v) = 1
    /\ \A v \in ItemVars(shape.rhs) : Count(shape.rhs, v) = 1
    /\ Count(shape.rhs, "") <= 1

\* C1: for a line of linear terms over the known variables with variable terms on both
\* sides, parse_constraint returns the coefficients and the rhs of the line rearranged by
\* hand.  Stated for the lines where no variable repeats on a side and the right side
\* holds at most one number, so that what is left to differ is a number on the left side.
C1_HandRearrangement ==
    (pstage = "constraint" /\ pform = PlainForm /\ TwoSided(pshape, pvars) /\ Plain(pshape))
        => /\ pres.ok
           /\ \A v \in Range(pvars) : pres.coefficients[v] = HandCoef(pshape, v)
           /\ pres.rhs = HandRhs(pshape)

\* C2: whenever parse_constraint returns, the keys of its coefficient mapping are exactly
\* the known variables; a variable the line does not mention has coefficient 0.
C2_KeysAreKnownVariables ==
    (pstage = "constraint" /\ pres.ok)
        => /\ DOMAIN pres.coefficients = Range(pvars)
           /\ \A v \in Range(pvars) :
                 (pshape.op # "" /\ v \notin ItemVars(pshape.lhs) \cup ItemVars(pshape.rhs))
                    => pres.coefficients[v] = 0

\* C2 witness: a parsed line that mentions x, which is not known, and leaves w out.
C2_Witness ==
    /\ pstage = "constraint" /\ pres.ok
    /\ pvars = <<"w", "y">>
    /\ "x" \in ItemVars(pshape.lhs) /\ "y" \in ItemVars(pshape.rhs)
    /\ pres.coefficients["w"] = 0 /\ pres.coefficients["y"] # 0

\* ------------------------------------- claims about the terms and the constant
\* What an item stands for, in units of 1/Scale: a bare variable has coefficient 1, a
\* number c is c, or c tenths when written with a leading point.
NumberValue(c, form) == IF form.point THEN (c * Scale) \div 10 ELSE c * Scale
ItemValue(it, form) ==
    it.sign * (IF it.var # "" /\ it.coef = 1 THEN Scale ELSE NumberValue(it.coef, form))

\* The last item of a side that names var, and the sum of all that do.
LastItem(items, var) ==
    items[CHOOSE k \in 1..Len(items) :
             items[k].var = var /\ \A j \in (k + 1)..Len(items) : items[j].var # var]
RECURSIVE SumValues(_, _, _, _)
SumValues(items, k, var, form) ==
    IF k > Len(items) THEN 0
    ELSE (IF items[k].var = var THEN ItemValue(items[k], form) ELSE 0)
         + SumValues(items, k + 1, var, form)

\* C15: whenever parse_objective returns, a variable written in several terms has the
\* coefficient of its last term; whenever parse_constraint returns, a known variable
\* written in several terms of the left side has the coefficient of the last of them,
\* less its terms on the right side.  The earlier terms are not added in.
C15_LastOccurrenceWins ==
    /\ (pstage = "objective" /\ pres.ok) =>
          \A v \in ItemVars(pshape.lhs) :
              Count(pshape.lhs, v) >= 2 =>
                  pres.coefficients[v] = ItemValue(LastItem(pshape.lhs, v), pform)
    /\ (pstage = "constraint" /\ pshape.op # "" /\ pres.ok) =>
          \A v \in Range(pvars) :
              Count(pshape.lhs, v) >= 2 =>
                  pres.coefficients[v] = ItemValue(LastItem(pshape.lhs, v), pform)
                                            - SumValues(pshape.rhs, 1, v, pform)

\* The objective "2x + x" has been parsed: x has coefficient 1, not 3.
C15_Witness ==
    /\ pstage = "objective" /\ pres.ok
    /\ ptext = "2x + x"
    /\ Count(pshape.lhs, "x") = 2
    /\ pres.coefficients["x"] = Scale
    /\ SumValues(pshape.lhs, 1, "x", pform) = 3 * Scale

\* The coefficient of var a side gives when each term is read as written: that of the
\* last term naming var, 0 when none does.
Written(items, var, form) ==
    IF Count(items, var) = 0 THEN 0 ELSE ItemValue(LastItem(items, var), form)

\* C16: every text made of terms parses, and each term is read as written: a variable
\* without a coefficient, or after a bare +, counts 1, after a bare - it counts -1, and
\* otherwise its coefficient is the signed decimal written before it, whatever
\* whitespace stands between the sign and the digits and with or without a * before the
\* variable.  Read off the result: in an objective each variable has the coefficient of
\* its last term, in a constraint each known variable has that of its last term on the
\* left less those of its terms on the right.
C16_CoefficientAsWritten ==
    /\ (pstage = "objective" /\ pshape.lhs # << >>) =>
          /\ pres.ok
          /\ \A v \in ItemVars(pshape.lhs) :
                pres.coefficients[v] = Written(pshape.lhs, v, pform)
    /\ (pstage = "constraint" /\ pshape.op # "") =>
          /\ pres.ok
          /\ \A v \in Range(pvars) :
                pres.coefficients[v] = Written(pshape.lhs, v, pform)
                                          - SumValues(pshape.rhs, 1, v, pform)

\* The standalone numbers of a side, in the order written, each with its sign.
RECURSIVE Standalone(_, _, _)
Standalone(items, k, form) ==
    IF k > Len(items) THEN << >>
    ELSE (IF items[k].var = "" THEN <<ItemValue(items[k], form)>> ELSE << >>)
         \o Standalone(items, k + 1, form)

\* C17: whenever parse_objective returns, the constant is the standalone number of the
\* text, with its sign (the first one when there are two), and 0 when the text holds
\* none; the coefficient of a variable is never the constant.
C17_ConstantLeftOver ==
    (pstage = "objective" /\ pres.ok /\ pshape.lhs # << >>) =>
        pres.constant = (IF Standalone(pshape.lhs, 1, pform) = << >> THEN 0
                         ELSE Standalone(pshape.lhs, 1, pform)[1])

\* The words of a prefix: its runs of letters.
PrefixWords == {"Max", "min", "MAX", "mIn", "Maximize", "minimize", "MaxZ", "Z", "z", "P"}

\* C18: for an expression preceded by a direction keyword (Max, Min, Maximize,
\* Minimize), a result symbol (Z, P) and =, in any letter case and with or without
\* whitespace around the symbol, parse_objective returns what it returns for the
\* expression alone: the same coefficients, variables and constant, or the same error;
\* no variable is a word of the prefix.
C18_PrefixIgnored ==
    (pstage = "objective" /\ pform.prefix # "") =>
        /\ pres = pbare
        /\ pres.ok => Range(pres.variables) \cap PrefixWords = {}
        /\ (pres.ok /\ pshape # NoShape) =>
              Range(pres.variables) \subseteq ItemVars(pshape.lhs)

\* C19: parse_constraint called on a text that holds none of <=, >=, = (every one of
\* them has a =) raises: nothing is returned, neither coefficients nor an operator nor
\* a rhs, and the error is "Invalid constraint format: " followed by the text.
C19_InvalidConstraintFormat ==
    (pstage = "constraint" /\ ~Contains(ptext, "=")) =>
        /\ ~pres.ok
        /\ pres.error = "Invalid constraint format: " \o ptext
        /\ pres.coefficients = << >> /\ pres.operator = ""

\* parse_constraint has raised on "x + y > 1", a comparison none of the operators
\* writes, with x and y known.
C19_Witness ==
    /\ pstage = "constraint" /\ ptext = "x + y > 1" /\ pvars = <<"x", "y">>
    /\ ~pres.ok
    /\ Contains(pres.error, "x + y > 1")

\* The coefficient text float() is given in a text of MalformedTexts or MalformedLines:
\* the lone point, with the sign before it when there is one.
OffendingToken(text) ==
    IF Contains(text, "- .") THEN "-." ELSE IF Contains(text, "+ .") THEN "+." ELSE "."

\* C20: a term whose coefficient is a lone point makes parse_objective raise, and makes
\* parse_constraint raise wherever the term stands in the line and whatever the known
\* variables are; the error names the coefficient text.  No result is returned with the
\* term left out or read as a default.
C20_MalformedCoefficientFails ==
    /\ (pstage = "objective"
            /\ From(ptext, Len(pform.prefix) + 1) \in MalformedTexts \ {""}) =>
          /\ ~pres.ok
          /\ Contains(pres.error, "'" \o OffendingToken(ptext) \o "'")
    /\ (pstage = "constraint" /\ ptext \in MalformedLines) =>
          /\ ~pres.ok
          /\ Contains(pres.error, "'" \o OffendingToken(ptext) \o "'")

\* ------------------------------------------- claims about the variable names
\* The variables of a side in the order each is first written.
RECURSIVE FirstSeen(_, _, _)
FirstSeen(items, k, seen) ==
    IF k > Len(items) THEN seen
    ELSE FirstSeen(items, k + 1,
                   IF items[k].var = "" \/ InList(items[k].var, seen) THEN seen
                   ELSE Append(seen, items[k].var))

\* C26: whenever parse_objective returns, no name stands twice in the variable list
\* and the keys of the coefficient mapping are exactly the names of the list; for a
\* text of terms the list holds the variables in the order each is first written; and
\* for the empty text it returns, without an error, an empty mapping, an empty list
\* and constant 0.
C26_VariablesInFirstOrder ==
    /\ (pstage = "objective" /\ pres.ok) =>
          /\ Cardinality(Range(pres.variables)) = Len(pres.variables)
          /\ DOMAIN pres.coefficients = Range(pres.variables)
          /\ pshape.lhs # << >> => pres.variables = FirstSeen(pshape.lhs, 1, << >>)
    /\ (pstage = "objective" /\ ptext = "") =>
          /\ pres.ok
          /\ pres.coefficients = << >>
          /\ pres.variables = << >>
          /\ pres.constant = 0

\* The objective "y + 1 + 2x" has been parsed: y comes before x; and so has "x - 2 + 2x",
\* where x is written twice and listed once.
C26_Witness ==
    /\ pstage = "objective" /\ pres.ok
    /\ Len(pshape.lhs) = 3
    /\ Count(pshape.lhs, "x") = 2
    /\ pres.variables = <<"x">>
    /\ pres.coefficients["x"] = 2 * Scale

\* ------------------------------------------- claims about a number on the left
\* A side without its standalone numbers.
RECURSIVE NumbersRemoved(_, _)
NumbersRemoved(items, k) ==
    IF k > Len(items) THEN << >>
    ELSE (IF items[k].var = "" THEN << >> ELSE <<items[k]>>) \o NumbersRemoved(items, k + 1)

\* C27: for a line of terms with a standalone number on its left side,
\* parse_constraint returns what it returns for the line without that number, the
\* same coefficients and the same rhs, and the rhs is the first number written to the
\* right of the operator, 0 when there is none.
C27_LeftNumberDiscarded ==
    (pstage = "constraint" /\ pshape.op # "" /\ Count(pshape.lhs, "") >= 1) =>
        /\ pres.ok
        /\ pres = parse_constraint(
                     WriteLine([pshape EXCEPT !.lhs = NumbersRemoved(pshape.lhs, 1)], pform),
                     pvars)
        /\ pres.rhs = (IF Standalone(pshape.rhs, 1, pform) = << >> THEN 0
                       ELSE Standalone(pshape.rhs, 1, pform)[1])

\* The line "x + 2 <= 1" has been parsed against x, y: x has coefficient 1, rhs is 1.
C27_Witness ==
    /\ pstage = "constraint" /\ pres.ok
    /\ pvars = <<"x", "y">>
    /\ pshape.lhs = <<Item(1, 1, "x"), Item(1, 2, "")>>
    /\ pshape.rhs = <<Item(1, 1, "")>>
    /\ pres.coefficients["x"] = Scale /\ pres.coefficients["y"] = 0
    /\ pres.rhs = Scale

\* ------------------------------------------- claims about several numbers
\* A side with every standalone number after the first one replaced by + 1.
RECURSIVE OthersReplaced(_, _, _)
OthersReplaced(items, k, seen) ==
    IF k > Len(items) THEN << >>
    ELSE IF items[k].var # "" THEN <<items[k]>> \o OthersReplaced(items, k + 1, seen)
    ELSE <<IF seen THEN Item(1, 1, "") ELSE items[k]>> \o OthersReplaced(items, k + 1, TRUE)

\* Numbers written whole and signs followed by blanks only.
WholeForm(form) == ~form.point /\ form.gap # "\t"

\* C29: for a text with more than one standalone number left once the variable terms
\* are removed, the parsers return what they return for the text with every number
\* after the first replaced by another one, so the others are ignored, and with the
\* numbers written as in `x + 5 + 3` and `x <= 5 + 3` they return without an error, the
\* objective's constant and the constraint's rhs being the first number with its sign.
C29_FirstNumberOnly ==
    /\ (pstage = "objective" /\ Count(pshape.lhs, "") >= 2) =>
          /\ pres = parse_objective(pform.prefix \o Write(OthersReplaced(pshape.lhs, 1, FALSE),
                                                         pform))
          /\ WholeForm(pform) =>
                pres.ok /\ pres.constant = Standalone(pshape.lhs, 1, pform)[1]
    /\ (pstage = "constraint" /\ pshape.op # "" /\ Count(pshape.rhs, "") >= 2) =>
          /\ pres = parse_constraint(
                       WriteLine([pshape EXCEPT !.rhs = OthersReplaced(pshape.rhs, 1, FALSE)],
                                 pform), pvars)
          /\ WholeForm(pform) =>
                pres.ok /\ pres.rhs = Standalone(pshape.rhs, 1, pform)[1]

\* The objective "x + 2 - 1" has been parsed: the constant is 2.
C29_Witness ==
    /\ pstage = "objective" /\ pres.ok
    /\ Len(pshape.lhs) = 3
    /\ Standalone(pshape.lhs, 1, pform) = <<2 * Scale, 0 - Scale>>
    /\ pres.constant = 2 * Scale

\* ------------------------------------------- claims about the split of a line
\* The operator written at position q of the text, "" if none is: <= and >= before =.
OpAt(text, q) ==
    IF Sub(text, q, q + 1) \in {"<=", ">="} THEN Sub(text, q, q + 1)
    ELSE IF Ch(text, q) = "=" THEN "="
    ELSE ""

\* The place of the leftmost operator of the text, 0 if it has none.
FirstPlace(text) ==
    LET places == {q \in 1..Len(text) : OpAt(text, q) # ""}
    IN IF places = {} THEN 0 ELSE CHOOSE q \in places : \A r \in places : q <= r

\* C25: when parse_constraint splits a line, it splits it at the leftmost place an
\* operator <=, >= or = is written: the operator is the one written there, the left
\* side is the text before it and the right side the text after it (blanks around
\* them aside), whatever operators or = signs come later; and the operator returned
\* is that one.
C25_SplitAtFirstOperator ==
    (pstage = "constraint" /\ psides.ok) =>
        LET q == FirstPlace(ptext)
            op == OpAt(ptext, q)
        IN /\ q > 0
           /\ psides.operator = op
           /\ strip(psides.lhs) = strip(Sub(ptext, 1, q - 1))
           /\ strip(psides.rhs) = strip(From(ptext, q + Len(op)))
           /\ pres.ok => pres.operator = op

\* -------------------------------------------------- claims about solve
\* What the call's arguments hold: the non-blank lines, the parsed objective, and the
\* variables adapter p parses the lines against.
Lines == ConstraintLines(constraints_text)
Objective == parse_objective(objective_text)
KnownVariables(p) == IF p \in Highs THEN sorted(Objective.variables) ELSE Objective.variables
LineResult(p, k) == parse_constraint(Lines[k], KnownVariables(p))
FirstFailing(p) ==
    {k \in 1..Len(Lines) : ~LineResult(p, k).ok /\ \A j \in 1..(k - 1) : LineResult(p, j).ok}

\* C3: in both adapters, once the objective has parsed, a constraint line that fails to
\* parse ends the call with a failure Result whose error holds the text of that line (the
\* first one that fails) and the parser's error; a model is built only when every line
\* parsed, and the backend has not been invoked before the model is built or after a
\* parse failure.
C3_ParseFailureAborts ==
    \A p \in Solvers :
        /\ (pc[p] = "ParseFailed" /\ Objective.ok) =>
              /\ result[p].success = FALSE
              /\ \E k \in FirstFailing(p) :
                    /\ Contains(result[p].error, Lines[k])
                    /\ Contains(result[p].error, LineResult(p, k).error)
        /\ pc[p] = "ModelBuilt" => \A k \in 1..Len(Lines) : LineResult(p, k).ok
        /\ pc[p] \in {"Idle", "Parsing", "ParseFailed", "ModelBuilt"} => invoked[p] = 0

\* C3 witness: both calls have returned on the second line of two, the first having
\* parsed, and neither backend ran.
C3_Witness ==
    /\ Len(Lines) = 2
    /\ \A p \in Solvers :
          /\ pc[p] = "ParseFailed" /\ Objective.ok
          /\ FirstFailing(p) = {2}
          /\ invoked[p] = 0

\* The keys of a dict, in order, and the value under a key.
Keys(items) == [i \in 1..Len(items) |-> items[i][1]]
ValueOf(items, key) == items[CHOOSE i \in 1..Len(items) : items[i][1] = key][2]

\* C4: in both adapters a success Result lists the variables, in variable_names and as
\* the keys of solution, in ascending order of their names, and that is the order the
\* model was built in.
C4_SortedVariableOrder ==
    \A p \in Solvers :
        pc[p] = "Optimal" =>
            /\ result[p].variable_names = sorted(Objective.variables)
            /\ Keys(result[p].solution) = sorted(Objective.variables)
            /\ self[p].variables = sorted(Objective.variables)

\* The backend of p reached a verdict (optimal, infeasible or unbounded) and the call
\* got to read its log.
Verdict(p) ==
    /\ res[p].kind = "returned"
    /\ res[p].status \in (IF p = "highs" THEN {0, 2, 3}
                          ELSE {LpStatusOptimal, LpStatusInfeasible, LpStatusUnbounded})
    /\ self[p].solver_log # ""

\* Both calls returned.
BothReturned == \A p \in Solvers : pc[p] \in Returned

\* Both calls returned, each on a parse failure or on its backend's verdict.
BothSettled ==
    \A p \in Solvers : pc[p] \in Returned /\ (pc[p] = "ParseFailed" \/ Verdict(p))

SameValues ==
    \A v \in Range(Objective.variables) :
        ValueOf(result["highs"].solution, v) = ValueOf(result["pulp"].solution, v)

\* The optimal points of the program the HiGHS adapter built from the input.
OptimalPoints ==
    {r.x : r \in {q \in linprog(self["highs"].c, self["highs"].A_ub, self["highs"].b_ub,
                                  self["highs"].A_eq, self["highs"].b_eq, VariableBounds) :
                     q.success}}

\* The input parses and its linear program is feasible and bounded.
FeasibleBounded == pc["highs"] # "ParseFailed" /\ OptimalPoints # {}

\* The program has one optimal point.
UniqueOptimum == Cardinality(OptimalPoints) = 1

\* Both adapters return success with status optimal and the same objective_value.
BothOptimal ==
    /\ result["highs"].success /\ result["pulp"].success
    /\ result["highs"].status = "optimal" /\ result["pulp"].status = "optimal"
    /\ result["highs"].objective_value = result["pulp"].objective_value

\* The three ways the claim as stated fails, each in a state where both calls returned
\* on a feasible and bounded program. A tie: the program has several optimal points and
\* the adapters hand on the points of their backends, which differ.
TiedApart ==
    /\ BothSettled /\ FeasibleBounded /\ BothOptimal
    /\ ~UniqueOptimum /\ ~SameValues
\* One backend raised or gave up (status 1 or 4 of linprog, not solved or undefined of
\* CBC) where the other reached the optimum.
OneBackendFailed ==
    /\ BothReturned /\ FeasibleBounded
    /\ \E p, q \in Solvers :
          /\ result[p].success /\ ~result[q].success
          /\ (res[q].kind = "raised"
                \/ res[q].status # (IF q = "highs" THEN 0 ELSE LpStatusOptimal))
\* CBC reached the optimum and the PuLP adapter could not read its log back.
LogNotRead ==
    /\ BothReturned /\ FeasibleBounded
    /\ result["highs"].success /\ ~result["pulp"].success
    /\ res["pulp"].kind = "returned" /\ res["pulp"].status = LpStatusOptimal

    /\ result["highs"].objective_value # result["highs"].objective_constant
    /\ Len(frame["highs"].parsed_constraints) = 2

\* sum of objective_coeffs[v] * solution[v] over the entries of solution from k on
RECURSIVE Recomputed(_, _)
Recomputed(r, k) ==
    IF k > Len(r.solution) THEN 0
    ELSE r.objective_coeffs[r.solution[k][1]] * r.solution[k][2] + Recomputed(r, k + 1)

\* C6: on success objective_value is the sum over the variables of objective_coeffs[v]
\* * solution[v], plus objective_constant, for maximize and minimize alike; in the
\* HiGHS adapter it is linprog's objective, negated back when maximizing, plus the
\* constant.
C6_ObjectiveValueRoundTrip ==
    /\ \A p \in Solvers :
          pc[p] = "Optimal" =>
              result[p].objective_value
                  = (Recomputed(result[p], 1) \div Scale) + result[p].objective_constant
    /\ pc["highs"] = "Optimal" =>
          result["highs"].objective_value
              = (IF is_maximize THEN 0 - res["highs"].fun ELSE res["highs"].fun)
                    + frame["highs"].obj.constant

\* C6 witness: both adapters succeeded maximizing an objective with a constant, at a
\* point where the terms do not sum to zero.
C6_Witness ==
    /\ is_maximize
    /\ \A p \in Solvers :
          /\ pc[p] = "Optimal"
          /\ result[p].objective_constant # 0
          /\ Recomputed(result[p], 1) > 0

\* The backend of p returned and reported an optimum.
ReportedOptimum(p) ==
    /\ res[p].kind = "returned"
    /\ IF p = "highs" THEN res[p].success ELSE res[p].status = LpStatusOptimal

FailureStatuses ==
    {"infeasible", "unbounded", "iteration_limit", "not_solved", "undefined", "unknown"}

\* C7: whenever the backend was invoked and did not report an optimum, the Result has
\* success false and a status among infeasible, unbounded, iteration_limit, not_solved,
\* undefined, unknown.
C7_FailureStatus ==
    \A p \in Solvers :
        (pc[p] \in Returned /\ invoked[p] > 0 /\ ~ReportedOptimum(p)) =>
            /\ result[p].success = FALSE
            /\ "status" \in DOMAIN result[p]
            /\ result[p].status \in FailureStatuses

\* C8: every Result solve returns holds a status and a solver_log.
C8_StatusAndLogAlways ==
    \A p \in Solvers :
        pc[p] \in Returned => {"status", "solver_log"} \subseteq DOMAIN result[p]

\* The call of p met an error: the objective or a line did not parse, the backend
\* raised, or the Result was built without the log having been read.
MetError(p) ==
    \/ pc[p] = "ParseFailed"
    \/ res[p].kind = "raised"
    \/ (res[p].kind = "returned" /\ self[p].solver_log = "")

\* C9: a call of solve ends by returning a Result; when it met an error the Result has
\* success false and an error message.
C9_NoExceptionEscapes ==
    \A p \in Solvers :
        pc[p] \in Returned =>
            /\ "success" \in DOMAIN result[p]
            /\ MetError(p) =>
                  /\ result[p].success = FALSE
                  /\ "error" \in DOMAIN result[p] /\ result[p].error # ""

\* C9 witness: linprog raised in one call and the log could not be read in the other,
\* and both calls returned.
C9_Witness ==
    /\ pc["highs"] \in Returned /\ res["highs"].kind = "raised"
    /\ pc["pulp"] \in Returned /\ res["pulp"].kind = "returned"
    /\ self["pulp"].solver_log = ""
    /\ result["pulp"].success = FALSE

\* C10: a Result with success true has status optimal and holds solution,
\* objective_value, variable_names, objective_coeffs, objective_constant and
\* constraints; one with success false holds an error message and neither a solution
\* nor an objective_value.
C10_NoPartialResult ==
    \A p \in Solvers :
        pc[p] \in Returned =>
            IF result[p].success
            THEN /\ result[p].status = "optimal"
                 /\ {"solution", "objective_value", "variable_names", "objective_coeffs",
                     "objective_constant", "constraints"} \subseteq DOMAIN result[p]
                 /\ Keys(result[p].solution) = result[p].variable_names
                 /\ Len(result[p].constraints) = Len(Lines)
            ELSE /\ "error" \in DOMAIN result[p] /\ result[p].error # ""
                 /\ DOMAIN result[p] \cap {"solution", "objective_value", "optimal_value",
                                           "variables"} = {}

\* C10 witness: one call succeeded on two lines and the other, its backend having given
\* up, returned a failure with a status.
C10_Witness ==
    /\ pc["highs"] = "Optimal" /\ result["highs"].success
    /\ Len(result["highs"].constraints) = 2
    /\ pc["pulp"] = "OtherFailure" /\ ~result["pulp"].success
    /\ "status" \in DOMAIN result["pulp"]

\* ------------------------------------------- claims about the backend model
\* C11: whenever a backend has been invoked, every variable of the program it was
\* handed has lower bound 0 and no upper bound, whatever the texts and the direction,
\* and every value in a success Result is at least 0.
C11_NonNegativeBounds ==
    \A p \in Solvers :
        /\ invoked[p] > 0 =>
              /\ Len(passed[p].bounds) = Len(frame[p].obj.variables)
              /\ \A i \in DOMAIN passed[p].bounds : passed[p].bounds[i] = <<<<0>>, << >>>>
        /\ (pc[p] \in Returned /\ result[p].success) =>
              \A i \in DOMAIN result[p].solution : result[p].solution[i][2] >= 0

\* Maximizing, both backends were handed a program of two variables and both Results
\* give a variable a value above 0.
C11_Witness ==
    /\ is_maximize
    /\ \A p \in Solvers :
          /\ pc[p] = "Optimal"
          /\ Len(passed[p].bounds) = 2
          /\ \E i \in DOMAIN result[p].solution : result[p].solution[i][2] > 0

\* The points of the whole grid over n variables, bounds left aside.
AllPoints(n) == Points([i \in 1..n |-> FreeBounds])

\* pt satisfies the parsed constraint con: its coefficients times pt against its rhs,
\* by its operator.
Satisfies(pt, con, names) ==
    CASE con.op = "<=" -> Dot(Row(con.coeffs, names), pt, 1) <= con.rhs * Scale
      [] con.op = ">=" -> Dot(Row(con.coeffs, names), pt, 1) >= con.rhs * Scale
      [] con.op = "=" -> Dot(Row(con.coeffs, names), pt, 1) = con.rhs * Scale

\* pt satisfies every row of the matrices of the HiGHS adapter.
SatisfiesRows(pt, me) ==
    /\ \A r \in 1..Len(me.A_ub) : Dot(me.A_ub[r], pt, 1) <= me.b_ub[r] * Scale
    /\ \A r \in 1..Len(me.A_eq) : Dot(me.A_eq[r], pt, 1) = me.b_eq[r] * Scale

\* How many of the first k constraints have an operator of ops.
RECURSIVE CountOps(_, _, _)
CountOps(cons, k, ops) ==
    IF k = 0 THEN 0
    ELSE (IF cons[k].op \in ops THEN 1 ELSE 0) + CountOps(cons, k - 1, ops)

\* C12: once the model is built, (a) the k-th parsed line is, in the HiGHS matrices, the
\* inequality row of its rank among the inequality lines, as parsed for <= and with
\* every coefficient and the rhs negated for >=, or the equality row of its rank among
\* the = lines, as parsed, and there are no other rows; (b) the cost vector is the
\* parsed objective in the order of the variables, negated exactly when maximizing;
\* (c) a point satisfies every row iff it satisfies every parsed constraint; (d) the
\* pulp problem holds the parsed lines and the parsed objective as they are, with
\* sense max exactly when maximizing.
C12_RowsMatchConstraints ==
    /\ pc["highs"] = "ModelBuilt" =>
          LET me == self["highs"]
              cons == frame["highs"].parsed_constraints
              names == me.variables
              Sign == IF is_maximize THEN 0 - 1 ELSE 1
              Ineq(k) == CountOps(cons, k, {"<=", ">="})
              Eq(k) == CountOps(cons, k, {"="})
          IN /\ Len(me.A_ub) = Ineq(Len(cons)) /\ Len(me.b_ub) = Ineq(Len(cons))
             /\ Len(me.A_eq) = Eq(Len(cons)) /\ Len(me.b_eq) = Eq(Len(cons))
             /\ \A k \in 1..Len(cons) :
                   CASE cons[k].op = "<=" ->
                          /\ \A i \in 1..Len(names) :
                                me.A_ub[Ineq(k)][i] = Get(cons[k].coeffs, names[i])
                          /\ me.b_ub[Ineq(k)] = cons[k].rhs
                     [] cons[k].op = ">=" ->
                          /\ \A i \in 1..Len(names) :
                                me.A_ub[Ineq(k)][i] = 0 - Get(cons[k].coeffs, names[i])
                          /\ me.b_ub[Ineq(k)] = 0 - cons[k].rhs
                     [] cons[k].op = "=" ->
                          /\ \A i \in 1..Len(names) :
                                me.A_eq[Eq(k)][i] = Get(cons[k].coeffs, names[i])
                          /\ me.b_eq[Eq(k)] = cons[k].rhs
             /\ Len(me.c) = Len(names)
             /\ \A i \in 1..Len(names) :
                   me.c[i] = Sign * Get(frame["highs"].obj.coefficients, names[i])
             /\ \A pt \in AllPoints(Len(names)) :
                   SatisfiesRows(pt, me) <=> \A k \in 1..Len(cons) : Satisfies(pt, cons[k], names)
    /\ pc["pulp"] = "ModelBuilt" =>
          LET prob == self["pulp"].prob
          IN /\ prob.constraints = frame["pulp"].parsed_constraints
             /\ prob.objective = frame["pulp"].obj.coefficients
             /\ (prob.sense = "max") <=> is_maximize

\* Maximizing over two variables, the HiGHS model is built from a <= line and a >= line
\* and has two inequality rows, the second with a negated rhs.
C12_Witness ==
    /\ pc["highs"] = "ModelBuilt"
    /\ is_maximize
    /\ Len(self["highs"].variables) = 2
    /\ Len(frame["highs"].parsed_constraints) = 2
    /\ frame["highs"].parsed_constraints[2].op = ">="
    /\ Len(self["highs"].A_ub) = 2
    /\ self["highs"].b_ub[2] < 0

\* ------------------------------------------- claims about repeated calls
\* The call of p that has returned was given the arguments of the earlier call e of the
\* same instance.
SameArguments(e, p) ==
    /\ e.called
    /\ e.objective_text = objective_text
    /\ e.constraints_text = constraints_text
    /\ e.is_maximize = is_maximize

\* The backend is deterministic: handed the program it was handed in the call e, it
\* answered, and left its log, as it did then.
AnsweredAlike(e, p) == e.passed = passed[p] => e.res = res[p]

\* C13: with a deterministic backend, a call that returns after the same instance has
\* served other calls, ending in any way, returns the Result that an earlier call of
\* the instance with the same arguments returned, the first call of the fresh instance
\* included.
C13_ResultDependsOnArgumentsOnly ==
    \A p \in Solvers :
        (pc[p] \in Returned /\ SameArguments(earlier[p], p) /\ AnsweredAlike(earlier[p], p))
            => result[p] = earlier[p].result

\* Both adapters' cases: a call returned success on an instance whose earlier call with
\* the same arguments returned success, the instance holding the fields the calls in
\* between left.
C13_Witness ==
    \E p \in Solvers :
        /\ pc[p] = "Optimal"
        /\ SameArguments(earlier[p], p)
        /\ earlier[p].res = res[p]
        /\ result[p].success
        /\ Len(result[p].constraints) = 1

\* ------------------------------------------- claims about the course of a call
\* The positions a call is at once its backend has been invoked.
AfterInvocation == {"Solving", "Optimal", "Infeasible", "Unbounded", "OtherFailure"}

\* At every moment of a call: the backend has been invoked once when the call is at or
\* past Solving and not at all before or after a parse failure, it has been invoked only
\* when the call holds the parsed objective and one parsed constraint for every
\* non-blank line, and a Result has been returned exactly when the call is at one of
\* the five terminal outcomes.
CallInOrder ==
    \A p \in Solvers :
        /\ pc[p] \in {"Idle", "Parsing", "ModelBuilt"} \cup AfterInvocation \cup Returned
        /\ invoked[p] = (IF pc[p] \in AfterInvocation THEN 1 ELSE 0)
        /\ invoked[p] > 0 => /\ frame[p].obj.ok
                             /\ Len(frame[p].parsed_constraints) = Len(Lines)
        /\ (pc[p] \in Returned) <=> (result[p] # NoReturn)

\* Every step: a call moves to a position that follows the one it is at, the backend is
\* invoked in the step from ModelBuilt to Solving and in no other, and a call that has
\* returned, with a failure or a success, takes no further step.
StepInOrder ==
    \A p \in Solvers :
        /\ pc'[p] # pc[p] => Follows(pc[p], pc'[p])
        /\ invoked'[p] # invoked[p] =>
              /\ pc[p] = "ModelBuilt" /\ pc'[p] = "Solving"
              /\ invoked'[p] = invoked[p] + 1
        /\ pc[p] \in Returned =>
              /\ pc'[p] = pc[p] /\ result'[p] = result[p] /\ res'[p] = res[p]
              /\ invoked'[p] = invoked[p] /\ self'[p] = self[p] /\ passed'[p] = passed[p]

\* C14: every call goes Idle, Parsing, then ParseFailed or ModelBuilt, then Solving,
\* then Optimal, Infeasible, Unbounded or OtherFailure; the backend is invoked at most
\* once, and only after the objective and every line have parsed; a call that has been
\* entered ends at one terminal outcome, and once there nothing more happens in it.
C14_CallStateMachine ==
    /\ []CallInOrder
    /\ [][StepInOrder]_vars
    /\ \A p \in Solvers : (pc[p] = "Parsing") ~> (pc[p] \in Returned)

\* Both calls have ended, one on a parse-free failure of its backend and one on a
\* verdict, each after one invocation.
C14_Witness ==
    /\ pc["highs"] = "Infeasible"
    /\ pc["pulp"] = "OtherFailure"
    /\ \A p \in Solvers : invoked[p] = 1 /\ result[p] # NoReturn


\* ------------------------------------------- claims about the scratch log file
\* C21: while CBC runs for a call of the PuLP adapter the scratch log file of the call
\* exists, and when solve has returned, at any of its outcomes (success, a failure
\* status, an exception of the backend, an exception while the log is read, a parse
\* failure before any file was made), no scratch log file exists any more.
C21_ScratchLogRemoved ==
    \A p \in Pulps :
        /\ pc[p] = "Solving" => log_path[p] \in log_files
        /\ pc[p] \in Returned => log_files = {}

\* The PuLP call has returned after CBC answered and reading the log raised: the file
\* it created is gone.
C21_Witness ==
    /\ pc["pulp"] = "OtherFailure"
    /\ invoked["pulp"] = 1
    /\ res["pulp"].kind = "returned"
    /\ res["pulp"].log = "unreadable"
    /\ log_files = {}


\* ------------------------------------------- claims about calls side by side
\* What the call of p hands its backend when nothing but its own arguments goes into
\* it: the cost vector and the four matrices, or the pulp problem.
OwnProgram(p) ==
    LET variables == KnownVariables(p)
        cons == ParseLines(Lines, 1, variables, << >>).parsed_constraints
        ub == UbRows(cons, variables)
        eq == EqRows(cons, variables)
    IN IF p \in Highs
       THEN <<CostVector(Objective.coefficients, variables, is_maximize),
              Column(ub, "a"), Column(ub, "b"), Column(eq, "a"), Column(eq, "b")>>
       ELSE PulpProblem(Objective, is_maximize, cons)

\* The Result the call of p returns when it runs alone, from its arguments and from
\* what its own backend answered and left in its own log.
Alone(p) ==
    LET variables == KnownVariables(p)
        lines == ParseLines(Lines, 1, variables, << >>)
        r == res[p]
    IN IF ~Objective.ok THEN Caught(Objective.error)
       ELSE IF ~lines.ok THEN Caught(lines.error)
       ELSE IF p \in Highs
       THEN HighsResult(r, Objective, variables, lines.parsed_constraints, is_maximize)
       ELSE PulpResult(r, r.kind = "returned" /\ r.log = "written", Objective,
                       lines.parsed_constraints,
                       [PulpProblem(Objective, is_maximize, lines.parsed_constraints)
                           EXCEPT !.status = IF r.kind = "returned" THEN r.status ELSE @],
                       is_maximize)

\* The backend of every call is handed the program of that call's own arguments, and
\* every call that has returned has returned the Result it returns alone.
RunsAsAlone ==
    \A p \in Instances :
        /\ pc[p] \in AfterInvocation => passed[p].program = OwnProgram(p)
        /\ pc[p] \in Returned => result[p] = Alone(p)

\* The step is one of the call of p: the call moves to another position, or CBC ends
\* while the call waits for it.
Moves(p) ==
    \/ pc'[p] # pc[p]
    \/ p \in Pulps /\ pc[p] = "Solving" /\ res[p] = NoRes /\ res'[p] # NoRes

\* A step is a step of one call, and it leaves every call that does not move in it as
\* it was: the fields of its instance, its locals, its backend's answer, its Result,
\* its log path, and while its backend runs or its log is still to be read, its
\* scratch log file; while CBC runs for a call, with the scratch file made, the
\* problem of its instance has the status it was built with.
KeepsToItself ==
    /\ \A p, q \in Instances : (Moves(p) /\ Moves(q)) => p = q
    /\ \A p \in Pulps :
          (pc[p] = "Solving" /\ res[p] = NoRes) => self[p].prob.status = LpStatusNotSolved
    /\ \A p \in Instances :
        ~Moves(p) =>
            /\ self'[p] = self[p] /\ frame'[p] = frame[p] /\ res'[p] = res[p]
            /\ result'[p] = result[p] /\ passed'[p] = passed[p]
            /\ log_path'[p] = log_path[p]
            /\ (p \in Pulps /\ pc[p] = "Solving") =>
                  (log_path[p] \in log_files /\ log_path[p] \in log_files')

\* C22: two calls on two adapter instances, their steps interleaved in every order,
\* each return the Result the call returns when it runs alone, and no step of one call
\* changes the other's instance fields, matrices, log text, Result or scratch log file.
C22_ConcurrentCallsIndependent ==
    /\ []RunsAsAlone
    /\ [][KeepsToItself]_vars

\* The calls on the two PuLP instances are both at their backends, each with a scratch
\* log file of its own: CBC has answered the one and still runs for the other.
C22_Witness ==
    /\ pc["pulp"] = "Solving"
    /\ pc["pulp2"] = "Solving"
    /\ log_path["pulp"] # log_path["pulp2"]
    /\ log_files = {log_path["pulp"], log_path["pulp2"]}
    /\ res["pulp"].kind = "returned"
    /\ self["pulp"].prob.status = LpStatusOptimal
    /\ res["pulp2"] = NoRes
    /\ self["pulp2"].prob.status = LpStatusNotSolved


\* ------------------------------------------- claims about malformed objectives
\* Every line of the constraints text is a well-formed constraint over x and y.
WellFormedConstraints ==
    /\ Len(Lines) > 0
    /\ \A k \in 1..Len(Lines) : parse_constraint(Lines[k], <<"x", "y">>).ok

\* C23: with an objective text that is not a sum of linear terms (the words `invalid
\* objective`, or a term whose coefficient is no number) and well-formed constraints,
\* a call of either adapter, maximizing or minimizing, returns success false with an
\* error field.
C23_MalformedObjectiveFails ==
    \A p \in Solvers :
        (/\ objective_text \in WordObjectives \cup {".x"}
         /\ pc[p] \in Returned
         /\ WellFormedConstraints)
            => /\ result[p].success = FALSE
               /\ "error" \in DOMAIN result[p]


\* ------------------------------------------- claims about the constraint lines
\* The parsed form of the line x + y op c against the variables `names`: coefficient 1
\* for x and for y, 0 for any other name, the operator as written and c as rhs.
ParsedForm(line, names) ==
    [coeffs |-> [v \in Range(names) |-> IF v \in {"x", "y"} THEN Scale ELSE 0],
     op |-> line.op,
     rhs |-> line.c * Scale]

\* C24: the constraints text is split on newlines, blank and whitespace-only lines are
\* passed over without being parsed (they cause no parse failure), every other line,
\* trimmed, gives one parsed constraint, and the constraints of a success Result are
\* these in the order of the text, each with the operator as written and coefficients
\* and rhs as parsed, not negated for a >= line.
C24_ConstraintLinesInOrder ==
    \A lay \in Layouts :
        constraints_text = lay.text =>
            \A p \in Solvers :
                /\ (pc[p] = "ParseFailed") => ~Objective.ok
                /\ (pc[p] \in {"ModelBuilt", "Solving"}) =>
                      Len(frame[p].parsed_constraints) = Len(lay.lines)
                /\ (pc[p] \in Returned /\ result[p].success) =>
                      result[p].constraints =
                          [k \in 1..Len(lay.lines) |->
                              ParsedForm(lay.lines[k], result[p].variable_names)]

\* Both adapters returned success on a text of two lines with blank lines before,
\* between and after them and blanks around them, the second a >= line.
C24_Witness ==
    /\ \E lay \in Layouts :
          /\ constraints_text = lay.text
          /\ Len(split(constraints_text)) = 7
          /\ Len(lay.lines) = 2
    /\ \A p \in Solvers :
          /\ pc[p] = "Optimal"
          /\ Len(result[p].constraints) = 2
          /\ result[p].constraints[2].op = ">="
          /\ result[p].constraints[2].rhs > 0

\* ------------------------------------------- claims about unknown variables
\* The variable names the terms of a line are written with.
Mentioned(line) == {FindTerms(line)[k].var : k \in 1..Len(FindTerms(line))}

\* Some line of the constraints text has a term whose variable the objective lacks.
SomeUnknown ==
    \E k \in 1..Len(Lines) : ~(Mentioned(Lines[k]) \subseteq Range(Objective.variables))

\* C28: when the objective parses and lacks x or y, and every line is a line of terms,
\* some of them with a variable the objective does not have, no call fails at parsing;
\* each line is
\* parsed to the variables of the objective as keys and no other, with the coefficient
\* of each such variable, the operator and the rhs that the line has when all its
\* variables are known; and the backend is invoked once, with one row or constraint for
\* every line, over the variables of the objective.
C28_UnknownVariableDropped ==
    (/\ objective_text \in {"x", ""} \cup WordObjectives
     /\ Objective.ok /\ WellFormedConstraints /\ SomeUnknown) =>
        \A p \in Solvers :
            /\ pc[p] # "ParseFailed"
            /\ (pc[p] \in {"ModelBuilt", "Solving"} \cup Returned) =>
                  /\ Len(frame[p].parsed_constraints) = Len(Lines)
                  /\ \A k \in 1..Len(Lines) :
                        LET got == frame[p].parsed_constraints[k]
                            full == parse_constraint(Lines[k], <<"x", "y">>)
                        IN /\ DOMAIN got.coeffs = Range(Objective.variables)
                           /\ \A v \in Range(Objective.variables) :
                                 got.coeffs[v] = Get(full.coefficients, v)
                           /\ got.op = full.operator
                           /\ got.rhs = full.rhs
            /\ (pc[p] \in {"Solving"} \cup Returned) =>
                  /\ invoked[p] = 1
                  /\ p = "highs" =>
                        /\ Len(passed[p].program[2]) + Len(passed[p].program[4]) = Len(Lines)
                        /\ \A row \in Range(passed[p].program[2])
                                        \cup Range(passed[p].program[4]) :
                              Len(row) = Len(Objective.variables)
                  /\ p = "pulp" =>
                        /\ passed[p].program.constraints = frame[p].parsed_constraints
                        /\ passed[p].program.names = Objective.variables

\* Objective x and the line x + y <= 2: both adapters were handed the row x <= 2 and
\* returned the optimum of maximizing x, the term of y dropped.
C28_Witness ==
    /\ objective_text = "x" /\ constraints_text = "x + y <= 2" /\ is_maximize
    /\ \A p \in Solvers :
          /\ pc[p] = "Optimal"
          /\ DOMAIN frame[p].parsed_constraints[1].coeffs = {"x"}
          /\ result[p].optimal_value = 2 * Scale

\* ------------------------------------------- claims about the app callback
\* solve has been called on some adapter.
AdapterCalled == \E p \in Instances : pc[p] # "Off"

\* C30: in solve_problem the adapter is called with maximize true exactly when the
\* type selector holds `maximize`, whatever prefix is typed, and with the typed
\* expression as its objective, the Max, Min, Maximize or Minimize Z = prefix stripped;
\* and with the click count, the objective or the constraints missing, no adapter is
\* called, no backend invoked, and no step changes the store.
C30_DirectionFromSelector ==
    /\ [](AdapterCalled =>
            /\ is_maximize <=> (inputs.objective_type = Some("maximize"))
            /\ \A t \in TypedObjectives :
                  inputs.objective = Some(t.text) => objective_text = t.expr)
    /\ [](MissingInputs(inputs) =>
            /\ ~AdapterCalled
            /\ \A p \in Instances : invoked[p] = 0)
    /\ [][MissingInputs(inputs) => store' = store]_vars

====
